---- MODULE Spec2Model ----
(* Prompt Saver: the prompt record store of PromptDataManager with its     *)
(* validation, repair, import/export, filter, sort and diff functions,     *)
(* modelled from src/utils.js.                                             *)
(*                                                                         *)
(* JavaScript values are tagged records, so that typeof, truthiness, ||    *)
(* and === behave as in the source:                                        *)
(*   undefined  [t |-> "undefined"]          null  [t |-> "null"]          *)
(*   boolean    [t |-> "boolean", b |-> ..]  number [t |-> "number", n]    *)
(*   string     [t |-> "string", s |-> <<symbols>>]                        *)
(*   date text  [t |-> "string", date |-> [fmt |-> .., time |-> ..]]       *)
(*   array      [t |-> "array", a |-> <<values>>]                          *)
(*   object     [t |-> "object", o |-> [key |-> value]]                    *)
(* A string is its sequence of symbols. In names, contents, tags and       *)
(* search terms a symbol is one character; identifiers and role names are  *)
(* one opaque symbol each (they are only compared and tested for           *)
(* emptiness). A date text is a non-empty string described by its format   *)
(* and the instant it denotes.                                             *)
EXTENDS Integers, Sequences, FiniteSets, TLC

VARIABLES
    store,      \* extension_settings[extensionName].prompts : key -> record
    before,     \* the store as it was when the last operation started
    last,       \* the last operation: its name, inputs and returned value
    exported,   \* the payload returned by the last exportPrompts()
    now,        \* the clock read by new Date() / Date.now()
    idCounter,  \* number of identifiers generatePromptId() has produced
    input,      \* the arguments of the pure functions under test
    waiting,    \* the awaited DOM element and the state of the waitForElement call
    preset,     \* the host's current completion preset, or null
    tasks,      \* the async calls in flight: where each is suspended and its locals
    filterCache,\* promptCache: its settings and the filterCache map
    debounced   \* a debounced function: its pending timer and the calls made

vars == <<store, before, last, exported, now, idCounter, input, waiting, preset, tasks, filterCache, debounced>>

-----------------------------------------------------------------------------
(* JavaScript values *)

Undef == [t |-> "undefined"]
Null == [t |-> "null"]
Bool(b) == [t |-> "boolean", b |-> b]
Num(n) == [t |-> "number", n |-> n]
Str(s) == [t |-> "string", s |-> s]
DateStr(fmt, time) == [t |-> "string", date |-> [fmt |-> fmt, time |-> time]]
Arr(a) == [t |-> "array", a |-> a]
Obj(o) == [t |-> "object", o |-> o]

EmptyObj == Obj(<<>>)

\* typeof v
TypeOf(v) ==
    CASE v.t = "null" -> "object"
      [] v.t = "array" -> "object"
      [] OTHER -> v.t

\* ToBoolean(v): the test made by !v, v || d, v && e and if (v)
Truthy(v) ==
    CASE v.t = "undefined" -> FALSE
      [] v.t = "null" -> FALSE
      [] v.t = "boolean" -> v.b
      [] v.t = "number" -> v.n # 0
      [] v.t = "string" -> IF "s" \in DOMAIN v THEN Len(v.s) > 0 ELSE TRUE
      [] OTHER -> TRUE

\* a || b
Or(a, b) == IF Truthy(a) THEN a ELSE b

\* v.k and v?.k : the property k of v, undefined when v has no such property
\* (v.k on undefined or null throws; the callers below use it only behind a
\* truthiness test or as v?.k)
Get(v, k) == IF v.t = "object" /\ k \in DOMAIN v.o THEN v.o[k] ELSE Undef

HasKey(v, k) == v.t = "object" /\ k \in DOMAIN v.o

\* { ...a, ...b } : the own properties of a overridden by those of b;
\* spreading undefined, null or a primitive adds nothing
Props(v) == IF v.t = "object" THEN v.o ELSE <<>>

Spread(a, b) == Obj(Props(b) @@ Props(a))

\* { ...v, k: x }
With(v, k, x) == Obj((k :> x) @@ Props(v))

-----------------------------------------------------------------------------
(* Strings *)

Whitespace == {" ", "\n"}

RECURSIVE TrimStart(_)
TrimStart(s) ==
    IF s = <<>> THEN s
    ELSE IF Head(s) \in Whitespace THEN TrimStart(Tail(s)) ELSE s

RECURSIVE TrimEnd(_)
TrimEnd(s) ==
    IF s = <<>> THEN s
    ELSE IF s[Len(s)] \in Whitespace THEN TrimEnd(SubSeq(s, 1, Len(s) - 1)) ELSE s

\* String.prototype.trim
Trim(s) == TrimEnd(TrimStart(s))

LowerOf(c) ==
    CASE c = "A" -> "a"
      [] c = "B" -> "b"
      [] OTHER -> c

\* String.prototype.toLowerCase
ToLowerCase(s) == [i \in 1..Len(s) |-> LowerOf(s[i])]

\* String.prototype.includes
Includes(s, sub) ==
    \E i \in 0..(Len(s) - Len(sub)) : SubSeq(s, i + 1, i + Len(sub)) = sub

-----------------------------------------------------------------------------
(* Dates *)

\* formats of date text:
\*   "iso"       2024-01-01T00:00:00.000Z  what toISOString() prints
\*   "iso_short" 2024-01-01T00:00:00Z      ISO without milliseconds
\*   "plain"     2024-01-01                parsed by Date, not by the regex
\*   "garbage"   not a date                Date gives Invalid Date
DateFormats == {"iso", "iso_short", "plain", "garbage"}

IsDateText(v) == v.t = "string" /\ "date" \in DOMAIN v

\* isNaN(new Date(v)) for a string v
ParsesAsDate(v) == IsDateText(v) /\ v.date.fmt # "garbage"

\* new Date(v).toISOString()
ToISOString(time) == DateStr("iso", time)

\* PromptDataManager.isValidISODate
isValidISODate(dateString) ==
    IF ~Truthy(dateString) \/ TypeOf(dateString) # "string" THEN FALSE
    ELSE IF ~ParsesAsDate(dateString) THEN FALSE
    ELSE dateString.date.fmt \in {"iso", "iso_short"}

-----------------------------------------------------------------------------
(* Validation, defaults and repair *)

Roles == {Str(<<"user">>), Str(<<"assistant">>), Str(<<"system">>)}

\* v !== undefined && typeof v !== ty
DefinedButNot(v, ty) == v # Undef /\ TypeOf(v) # ty

\* !v || typeof v !== 'string' || v.trim().length === 0
BlankText(v) ==
    \/ ~Truthy(v)
    \/ TypeOf(v) # "string"
    \/ ("s" \in DOMAIN v /\ Len(Trim(v.s)) = 0)

\* Array.isArray(v) && v.every(tag => typeof tag === 'string')
IsStringArray(v) == v.t = "array" /\ \A i \in 1..Len(v.a) : TypeOf(v.a[i]) = "string"

\* the error list of validatePromptData, one conditional push after another
ErrIf(cond, msg) == IF cond THEN <<msg>> ELSE <<>>

MetadataErrors(metadata) ==
    ErrIf(Truthy(Get(metadata, "created_at")) /\ ~isValidISODate(Get(metadata, "created_at")),
          "metadata.created_at must be a valid ISO date string")
    \o ErrIf(Truthy(Get(metadata, "last_used")) /\ ~isValidISODate(Get(metadata, "last_used")),
          "metadata.last_used must be a valid ISO date string")
    \o ErrIf(DefinedButNot(Get(metadata, "favorite"), "boolean"),
          "metadata.favorite must be a boolean")
    \o ErrIf(Get(metadata, "usage_count") # Undef
               /\ (TypeOf(Get(metadata, "usage_count")) # "number"
                   \/ Get(metadata, "usage_count").n < 0),
          "metadata.usage_count must be a non-negative number")
    \o ErrIf(Truthy(Get(metadata, "tags")) /\ ~IsStringArray(Get(metadata, "tags")),
          "metadata.tags must be an array of strings")
    \o ErrIf(Get(metadata, "source_preset") # Undef /\ Get(metadata, "source_preset") # Null
               /\ TypeOf(Get(metadata, "source_preset")) # "string",
          "metadata.source_preset must be a string or null")

ValidationErrors(promptData) ==
    ErrIf(~Truthy(Get(promptData, "id")) \/ TypeOf(Get(promptData, "id")) # "string",
          "Prompt ID is required and must be a string")
    \o ErrIf(BlankText(Get(promptData, "name")),
          "Prompt name is required and must be a non-empty string")
    \o ErrIf(BlankText(Get(promptData, "content")),
          "Prompt content is required and must be a non-empty string")
    \o ErrIf(~Truthy(Get(promptData, "role")) \/ Get(promptData, "role") \notin Roles,
          "Prompt role must be one of: user, assistant, system")
    \o ErrIf(DefinedButNot(Get(promptData, "system_prompt"), "boolean"),
          "system_prompt must be a boolean")
    \o ErrIf(DefinedButNot(Get(promptData, "marker"), "boolean"),
          "marker must be a boolean")
    \o ErrIf(DefinedButNot(Get(promptData, "injection_position"), "number"),
          "injection_position must be a number")
    \o ErrIf(DefinedButNot(Get(promptData, "injection_depth"), "number"),
          "injection_depth must be a number")
    \o ErrIf(DefinedButNot(Get(promptData, "injection_order"), "number"),
          "injection_order must be a number")
    \o ErrIf(DefinedButNot(Get(promptData, "forbid_overrides"), "boolean"),
          "forbid_overrides must be a boolean")
    \o (IF Truthy(Get(promptData, "metadata"))
        THEN MetadataErrors(Get(promptData, "metadata"))
        ELSE <<>>)

\* PromptDataManager.validatePromptData
validatePromptData(promptData) ==
    LET errors == ValidationErrors(promptData)
    IN  [isValid |-> Len(errors) = 0, errors |-> errors]

\* PromptDataManager.generatePromptId: the n-th identifier produced
GeneratedIds == <<"prompt_1", "prompt_2", "prompt_3", "prompt_4", "prompt_5", "prompt_6">>

generatePromptId(n) == Str(<<GeneratedIds[n]>>)

\* PromptDataManager.createPromptData, with the clock reading and the
\* identifier generatePromptId() would return
createPromptData(promptData, time, freshId) ==
    LET md == Get(promptData, "metadata")
        defaults ==
            [created_at |-> Or(Get(md, "created_at"), ToISOString(time)),
             last_used |-> Or(Get(md, "last_used"), Null),
             favorite |-> Or(Get(md, "favorite"), Bool(FALSE)),
             usage_count |-> Or(Get(md, "usage_count"), Num(0)),
             tags |-> Or(Get(md, "tags"), Arr(<<>>)),
             source_preset |-> Or(Get(md, "source_preset"), Null)]
    IN  Obj([id |-> Or(Get(promptData, "id"), freshId),
             name |-> Or(Get(promptData, "name"), Str(<<"Untitled Prompt">>)),
             content |-> Or(Get(promptData, "content"), Str(<<>>)),
             role |-> Or(Get(promptData, "role"), Str(<<"user">>)),
             system_prompt |-> Or(Get(promptData, "system_prompt"), Bool(FALSE)),
             marker |-> Or(Get(promptData, "marker"), Bool(FALSE)),
             injection_position |-> Or(Get(promptData, "injection_position"), Num(0)),
             injection_depth |-> Or(Get(promptData, "injection_depth"), Num(4)),
             injection_order |-> Or(Get(promptData, "injection_order"), Num(100)),
             forbid_overrides |-> Or(Get(promptData, "forbid_overrides"), Bool(FALSE)),
             metadata |-> Spread(Obj(defaults), md)])

\* fixDateString inside repairPromptData
fixDateString(dateStr) ==
    IF ~Truthy(dateStr) THEN Null
    ELSE IF TypeOf(dateStr) # "string" THEN Null
    ELSE IF ~ParsesAsDate(dateStr) THEN Null
    ELSE ToISOString(dateStr.date.time)

\* typeof v === ty ? v : d
IfType(v, ty, d) == IF TypeOf(v) = ty THEN v ELSE d

\* the record repairPromptData builds before it validates it
RepairedRecord(promptData, time, freshId) ==
    LET md == Get(promptData, "metadata")
    IN  Obj([id |-> Or(Get(promptData, "id"), freshId),
             name |-> Or(Get(promptData, "name"), Str(<<"Recovered Prompt">>)),
             content |-> Or(Get(promptData, "content"), Str(<<>>)),
             role |-> IF Get(promptData, "role") \in Roles
                      THEN Get(promptData, "role") ELSE Str(<<"user">>),
             system_prompt |-> IfType(Get(promptData, "system_prompt"), "boolean", Bool(FALSE)),
             marker |-> IfType(Get(promptData, "marker"), "boolean", Bool(FALSE)),
             injection_position |-> IfType(Get(promptData, "injection_position"), "number", Num(0)),
             injection_depth |-> IfType(Get(promptData, "injection_depth"), "number", Num(4)),
             injection_order |-> IfType(Get(promptData, "injection_order"), "number", Num(100)),
             forbid_overrides |-> IfType(Get(promptData, "forbid_overrides"), "boolean", Bool(FALSE)),
             metadata |-> Obj(
                [created_at |-> Or(fixDateString(Get(md, "created_at")), ToISOString(time)),
                 last_used |-> fixDateString(Get(md, "last_used")),
                 favorite |-> IfType(Get(md, "favorite"), "boolean", Bool(FALSE)),
                 usage_count |-> IfType(Get(md, "usage_count"), "number", Num(0)),
                 tags |-> IF Get(md, "tags").t = "array" THEN Get(md, "tags") ELSE Arr(<<>>),
                 source_preset |-> Or(Get(md, "source_preset"), Null)])])

\* PromptDataManager.repairPromptData: the repaired record, or null
repairPromptData(promptData, time, freshId) ==
    LET repaired == RepairedRecord(promptData, time, freshId)
    IN  IF validatePromptData(repaired).isValid THEN repaired ELSE Null

-----------------------------------------------------------------------------
(* Records the functions are exercised on *)

\* the clock reading at start
StartTime == 5

\* number of fields in which an input record may differ from a complete one
MaxDeviations == 2

\* a record as savePrompt stores it
CompleteRecord(id, name, content, role, fav, created, used) ==
    Obj([id |-> Str(<<id>>),
         name |-> Str(name),
         content |-> Str(content),
         role |-> Str(<<role>>),
         system_prompt |-> Bool(FALSE),
         marker |-> Bool(FALSE),
         injection_position |-> Num(0),
         injection_depth |-> Num(4),
         injection_order |-> Num(100),
         forbid_overrides |-> Bool(FALSE),
         metadata |-> Obj([created_at |-> DateStr("iso", created),
                           last_used |-> used,
                           favorite |-> Bool(fav),
                           usage_count |-> Num(0),
                           tags |-> Arr(<<>>),
                           source_preset |-> Null])])

BaseRecord == CompleteRecord("p1", <<"a">>, <<"a", "b">>, "user", FALSE, 1, Null)

\* r with the top-level field k set to v; undefined removes the field
SetField(r, k, v) ==
    IF v = Undef
    THEN Obj([x \in DOMAIN r.o \ {k} |-> r.o[x]])
    ELSE With(r, k, v)

\* r with metadata.k set to v; undefined removes the key
SetMeta(r, k, v) ==
    IF Get(r, "metadata").t # "object" THEN r
    ELSE With(r, "metadata", SetField(Get(r, "metadata"), k, v))

FieldDeviations ==
    ({"id"} \X {Undef, Num(7), Str(<<>>)})
    \cup ({"name"} \X {Undef, Str(<<" ">>), Num(7), Str(<<"B">>)})
    \cup ({"content"} \X {Undef, Str(<<" ", "\n">>), Str(<<>>)})
    \cup ({"role"} \X {Undef, Str(<<"bot">>), Str(<<"system">>)})
    \cup ({"system_prompt", "marker", "forbid_overrides"} \X {Undef, Bool(TRUE), Str(<<"yes">>)})
    \cup ({"injection_position", "injection_depth", "injection_order"}
            \X {Undef, Num(0), Num(2), Str(<<"2">>)})
    \cup ({"metadata"} \X {Undef, Null})

MetaDeviations ==
    ({"created_at"} \X ({Undef, Str(<<>>), Num(7)} \cup {DateStr(f, 2) : f \in DateFormats}))
    \cup ({"last_used"} \X ({Undef, Str(<<>>)} \cup {DateStr(f, 3) : f \in DateFormats}))
    \cup ({"favorite"} \X {Undef, Bool(TRUE), Str(<<"yes">>)})
    \cup ({"usage_count"} \X {Undef, Null, Num(-1), Num(3), Str(<<"3">>)})
    \cup ({"tags"} \X {Undef, Null, Str(<<"a">>), Arr(<<Str(<<"a">>)>>), Arr(<<Num(7)>>)})
    \cup ({"source_preset"} \X {Undef, Str(<<"Default">>), Str(<<>>), Num(7)})
    \cup ({"imported_at"} \X {DateStr("iso", 4)})

Deviate(r) ==
    {SetField(r, d[1], d[2]) : d \in FieldDeviations}
    \cup {SetMeta(r, d[1], d[2]) : d \in MetaDeviations}

RECURSIVE Variants(_)
Variants(n) ==
    IF n = 0 THEN {BaseRecord}
    ELSE LET prev == Variants(n - 1)
         IN  prev \cup UNION {Deviate(r) : r \in prev}

NoOp == [op |-> "none"]

\* the variables a specification does not use
IdleStore ==
    /\ store = <<>>
    /\ before = <<>>
    /\ exported = Null
    /\ now = StartTime
    /\ idCounter = 0
    /\ waiting = [variant |-> "none"]
    /\ preset = Null
    /\ tasks = <<>>
    /\ filterCache = [enabled |-> FALSE]
    /\ debounced = [kind |-> "none"]

-----------------------------------------------------------------------------
(* Specification of validatePromptData and repairPromptData as functions *)

InitValidate ==
    /\ IdleStore
    /\ last = NoOp
    /\ input \in {[promptData |-> r] : r \in Variants(MaxDeviations)}

CallValidate ==
    /\ last' = [op |-> "validatePromptData",
                result |-> validatePromptData(input.promptData)]
    /\ UNCHANGED <<store, before, exported, now, idCounter, input, waiting, preset, tasks, filterCache, debounced>>

CallRepair ==
    /\ last' = [op |-> "repairPromptData",
                result |-> repairPromptData(input.promptData, now, generatePromptId(1))]
    /\ UNCHANGED <<store, before, exported, now, idCounter, input, waiting, preset, tasks, filterCache, debounced>>

NextValidate == CallValidate \/ CallRepair

SpecValidate == InitValidate /\ [][NextValidate]_vars

-----------------------------------------------------------------------------
(* Claims about validation and repair *)

\* the fields that make up a record's identity in the claims
RecordFields ==
    {"id", "name", "content", "role", "system_prompt", "marker", "forbid_overrides",
     "injection_position", "injection_depth", "injection_order"}

\* same id, name, content, role, flags and injection fields
SameFields(r, q) == \A k \in RecordFields : Get(r, k) = Get(q, k)

\* same metadata keys and values
SameMetadata(r, q) == Props(Get(r, "metadata")) = Props(Get(q, "metadata"))

\* a date field that is present but is not text that parses as a date
PresentUnparsable(v) == v # Undef /\ v # Null /\ ~ParsesAsDate(v)

\* the cases in which the validation predicate is said to report a record
MustBeInvalid(r) ==
    LET md == Get(r, "metadata")
    IN  \/ Get(r, "id") = Undef \/ TypeOf(Get(r, "id")) # "string"
        \/ Get(r, "name") = Undef
        \/ (Get(r, "name").t = "string" /\ Len(Trim(Get(r, "name").s)) = 0)
        \/ Get(r, "content") = Undef
        \/ (Get(r, "content").t = "string" /\ Len(Trim(Get(r, "content").s)) = 0)
        \/ Get(r, "role") \notin Roles
        \/ (HasKey(md, "usage_count")
             /\ (Get(md, "usage_count").t # "number" \/ Get(md, "usage_count").n < 0))
        \/ PresentUnparsable(Get(md, "created_at"))
        \/ PresentUnparsable(Get(md, "last_used"))

\* C2: repairPromptData applied to a record that validatePromptData accepts
\* returns an equivalent record: same id, name, content, role, flags,
\* injection fields, and the same metadata keys and values.
C2_RepairIsIdentityOnValid ==
    (last.op = "repairPromptData" /\ validatePromptData(input.promptData).isValid)
        => /\ last.result # Null
           /\ SameFields(last.result, input.promptData)
           /\ SameMetadata(last.result, input.promptData)

\* C5: validatePromptData returns isValid = true exactly when its error list
\* is empty, and reports as invalid every record with a missing or non-string
\* id, a missing or blank name or content, a role outside user/assistant/
\* system, a negative or non-numeric usage_count, or a created_at/last_used
\* that is present but does not parse as a date.
C5_ValidationPredicate ==
    last.op = "validatePromptData"
        => /\ last.result.isValid <=> (last.result.errors = <<>>)
           /\ MustBeInvalid(input.promptData) => ~last.result.isValid

-----------------------------------------------------------------------------
(* Content diff *)

\* longest content the diff is exercised on
MaxContentLen == 3

ContentAlphabet == {"a", "b", "\n"}

RECURSIVE StringsUpTo(_, _)
StringsUpTo(alphabet, n) ==
    IF n = 0 THEN {<<>>}
    ELSE LET shorter == StringsUpTo(alphabet, n - 1)
         IN  shorter \cup {Append(s, c) : s \in shorter, c \in alphabet}

\* String.prototype.split('\n')
RECURSIVE SplitLines(_)
SplitLines(s) ==
    IF \A i \in 1..Len(s) : s[i] # "\n" THEN <<s>>
    ELSE LET k == CHOOSE i \in 1..Len(s) : s[i] = "\n" /\ \A j \in 1..(i - 1) : s[j] # "\n"
         IN  <<SubSeq(s, 1, k - 1)>> \o SplitLines(SubSeq(s, k + 1, Len(s)))

\* lines[i] || ''  (i counts from 0 as in the source)
LineAt(lines, i) == IF i + 1 <= Len(lines) THEN lines[i + 1] ELSE <<>>

DiffEntry(type, content, i) == [type |-> type, content |-> content, lineNumber |-> i + 1]

\* a loop body that reports a modified line as one entry, the new line only
DiffLineModifiedAsAdded(line1, line2, i) ==
    IF line1 = line2
    THEN IF line1 # <<>> THEN <<DiffEntry("unchanged", line1, i)>> ELSE <<>>
    ELSE IF line2 # <<>> THEN <<DiffEntry("added", line2, i)>>
    ELSE <<DiffEntry("removed", line1, i)>>

\* a loop body that has lost its first branch: equal lines are compared again
DiffLineNoEqualBranch(line1, line2, i) ==
    IF line1 = <<>> /\ line2 # <<>> THEN <<DiffEntry("added", line2, i)>>
    ELSE IF line1 # <<>> /\ line2 = <<>> THEN <<DiffEntry("removed", line1, i)>>
    ELSE <<DiffEntry("removed", line1, i), DiffEntry("added", line2, i)>>

\* the body of the loop of generateContentDiff for line index i
DiffLine(line1, line2, i) ==
    IF line1 = line2
    THEN IF line1 # <<>> THEN <<DiffEntry("unchanged", line1, i)>> ELSE <<>>
    ELSE IF line1 = <<>> /\ line2 # <<>> THEN <<DiffEntry("added", line2, i)>>
    ELSE IF line1 # <<>> /\ line2 = <<>> THEN <<DiffEntry("removed", line1, i)>>
    ELSE <<DiffEntry("removed", line1, i), DiffEntry("added", line2, i)>>

RECURSIVE DiffFrom(_, _, _, _)
DiffFrom(lines1, lines2, i, maxLines) ==
    IF i >= maxLines THEN <<>>
    ELSE DiffLine(LineAt(lines1, i), LineAt(lines2, i), i)
            \o DiffFrom(lines1, lines2, i + 1, maxLines)

Max(a, b) == IF a >= b THEN a ELSE b

\* PromptDataManager.generateContentDiff
generateContentDiff(content1, content2) ==
    LET lines1 == SplitLines(content1)
        lines2 == SplitLines(content2)
    IN  DiffFrom(lines1, lines2, 0, Max(Len(lines1), Len(lines2)))

InitDiff ==
    /\ IdleStore
    /\ last = NoOp
    /\ input \in [content1 : StringsUpTo(ContentAlphabet, MaxContentLen),
                  content2 : StringsUpTo(ContentAlphabet, MaxContentLen)]

CallDiff ==
    /\ last' = [op |-> "generateContentDiff",
                result |-> generateContentDiff(input.content1, input.content2)]
    /\ UNCHANGED <<store, before, exported, now, idCounter, input, waiting, preset, tasks, filterCache, debounced>>

NextDiff == CallDiff

SpecDiff == InitDiff /\ [][NextDiff]_vars

\* C10: for every string s, generateContentDiff(s, s) has no entry of type
\* 'added' and no entry of type 'removed'.
C10_IdenticalContentNoChanges ==
    (last.op = "generateContentDiff" /\ input.content1 = input.content2)
        => \A i \in 1..Len(last.result) : last.result[i].type \notin {"added", "removed"}

\* a diff of a several-line text with itself has been computed
C10_Witness ==
    /\ last.op = "generateContentDiff"
    /\ input.content1 = input.content2
    /\ Len(SplitLines(input.content1)) >= 2
    /\ Len(last.result) >= 2

DiffTypes == {"unchanged", "added", "removed"}

\* the result holds, next to each other, the removed line1 and the added
\* line2 of line index i
HasPairAt(result, line1, line2, i) ==
    \E j \in 1..(Len(result) - 1) :
        /\ result[j] = DiffEntry("removed", line1, i)
        /\ result[j + 1] = DiffEntry("added", line2, i)

\* the line indexes both contents have
SharedIndexes(lines1, lines2) ==
    {i \in 0..(Len(lines1) - 1) : i < Len(lines2)}

IsDiffCall == last.op = "generateContentDiff"

\* C11: generateContentDiff emits only entries of type unchanged, added or
\* removed, and for every line index at which the two contents have
\* differing lines it emits a 'removed' entry with the first content's line
\* immediately followed by an 'added' entry with the second content's line,
\* both with lineNumber index + 1.
C11_PositionalDiffShape ==
    IsDiffCall =>
        LET lines1 == SplitLines(input.content1)
            lines2 == SplitLines(input.content2)
        IN  /\ \A j \in 1..Len(last.result) : last.result[j].type \in DiffTypes
            /\ \A i \in SharedIndexes(lines1, lines2) :
                  lines1[i + 1] # lines2[i + 1]
                      => HasPairAt(last.result, lines1[i + 1], lines2[i + 1], i)

\* C11 as the code has it: the pair is emitted where both lines are
\* non-empty and differ; where one of the two lines is empty or absent the
\* other is emitted alone, as 'added' or as 'removed', and no entry ever
\* carries an empty line.
C11_PairForNonEmptyLines ==
    IsDiffCall =>
        LET lines1 == SplitLines(input.content1)
            lines2 == SplitLines(input.content2)
            maxLines == Max(Len(lines1), Len(lines2))
        IN  /\ \A j \in 1..Len(last.result) :
                  /\ last.result[j].type \in DiffTypes
                  /\ last.result[j].content # <<>>
            /\ \A i \in 0..(maxLines - 1) :
                  LET line1 == LineAt(lines1, i)
                      line2 == LineAt(lines2, i)
                      here == SelectSeq(last.result, LAMBDA e : e.lineNumber = i + 1)
                  IN  /\ (line1 # <<>> /\ line2 # <<>> /\ line1 # line2)
                          => /\ HasPairAt(last.result, line1, line2, i)
                             /\ Len(here) = 2
                      /\ (line1 = <<>> /\ line2 # <<>>)
                          => here = <<DiffEntry("added", line2, i)>>
                      /\ (line1 # <<>> /\ line2 = <<>>)
                          => here = <<DiffEntry("removed", line1, i)>>

\* a diff with a modified line and a line set against an empty one
C11_Witness ==
    /\ IsDiffCall
    /\ \E i \in SharedIndexes(SplitLines(input.content1), SplitLines(input.content2)) :
          /\ SplitLines(input.content1)[i + 1] = <<>>
          /\ SplitLines(input.content2)[i + 1] # <<>>
    /\ \E i \in SharedIndexes(SplitLines(input.content1), SplitLines(input.content2)) :
          /\ SplitLines(input.content1)[i + 1] # <<>>
          /\ SplitLines(input.content2)[i + 1] # <<>>
          /\ SplitLines(input.content1)[i + 1] # SplitLines(input.content2)[i + 1]
          /\ HasPairAt(last.result, SplitLines(input.content1)[i + 1],
                       SplitLines(input.content2)[i + 1], i)

-----------------------------------------------------------------------------
(* Filtering *)

\* a call that returns v, and a call that throws
Returned(v) == [threw |-> FALSE, value |-> v]
Threw == [threw |-> TRUE]

\* Object.fromEntries(Object.entries(prompts).filter(keep))
Restrict(prompts, keep) == [k \in {x \in DOMAIN prompts : keep[x]} |-> prompts[k]]

\* filters.search && filters.search.trim()
HasSearch(filters) ==
    /\ Truthy(Get(filters, "search"))
    /\ Len(Trim(Get(filters, "search").s)) > 0

\* filters.search.toLowerCase().trim()
SearchTerm(filters) == Trim(ToLowerCase(Get(filters, "search").s))

\* x.some / x.includes throws unless x is an array (or, for includes, a string)
TagList(prompt) == Get(Get(prompt, "metadata"), "tags")

NoMetadata(prompt) == Get(prompt, "metadata").t \in {"undefined", "null"}

\* prompt.name.toLowerCase().includes(term) || prompt.content.toLowerCase().includes(term)
TextMatches(prompt, term) ==
    \/ Includes(ToLowerCase(Get(prompt, "name").s), term)
    \/ Includes(ToLowerCase(Get(prompt, "content").s), term)

\* prompt.metadata.tags.some(tag => tag.toLowerCase().includes(term))
TagMatches(prompt, term) ==
    \E i \in 1..Len(TagList(prompt).a) : Includes(ToLowerCase(TagList(prompt).a[i].s), term)

SearchThrows(prompt, term) ==
    ~TextMatches(prompt, term) /\ (NoMetadata(prompt) \/ TagList(prompt).t # "array")

SearchKeeps(prompt, term) == TextMatches(prompt, term) \/ TagMatches(prompt, term)

\* tags.includes(tag) on an array of tags
HasTag(prompt, tag) == \E i \in 1..Len(TagList(prompt).a) : TagList(prompt).a[i] = tag

\* filters.tags && Array.isArray(filters.tags) && filters.tags.length > 0
HasTagFilter(filters) == Get(filters, "tags").t = "array" /\ Len(Get(filters, "tags").a) > 0

FilterTags(filters) == {Get(filters, "tags").a[i] : i \in 1..Len(Get(filters, "tags").a)}

\* filters.tags.some(tag => prompt.metadata.tags.includes(tag))
AnyTagKeeps(prompt, filters) == \E tag \in FilterTags(filters) : HasTag(prompt, tag)

\* filters.tags.every(tag => prompt.metadata.tags.includes(tag))
AllTagsKeep(prompt, filters) == \A tag \in FilterTags(filters) : HasTag(prompt, tag)

\* the search, role and favorite stages, which the two applyFilters share
SearchStage(r, filters) ==
    IF r.threw \/ ~HasSearch(filters) THEN r
    ELSE IF \E k \in DOMAIN r.value : SearchThrows(r.value[k], SearchTerm(filters)) THEN Threw
    ELSE Returned(Restrict(r.value,
            [k \in DOMAIN r.value |-> SearchKeeps(r.value[k], SearchTerm(filters))]))

RoleStage(r, filters) ==
    IF r.threw \/ ~Truthy(Get(filters, "role")) \/ Get(filters, "role") = Str(<<"all">>) THEN r
    ELSE Returned(Restrict(r.value,
            [k \in DOMAIN r.value |-> Get(r.value[k], "role") = Get(filters, "role")]))

FavoriteStage(r, filters) ==
    IF r.threw \/ Get(filters, "favorite") \in {Undef, Null} THEN r
    ELSE IF \E k \in DOMAIN r.value : NoMetadata(r.value[k]) THEN Threw
    ELSE Returned(Restrict(r.value,
            [k \in DOMAIN r.value |->
                Get(Get(r.value[k], "metadata"), "favorite") = Get(filters, "favorite")]))

TagsThrow(r) == \E k \in DOMAIN r.value : NoMetadata(r.value[k]) \/ TagList(r.value[k]).t # "array"

\* the tags stage of PromptDataManager.applyFilters
AnyTagStage(r, filters) ==
    IF r.threw \/ ~HasTagFilter(filters) THEN r
    ELSE IF TagsThrow(r) THEN Threw
    ELSE Returned(Restrict(r.value,
            [k \in DOMAIN r.value |-> AnyTagKeeps(r.value[k], filters)]))

\* the tags stage of PromptLibraryUI.applyFilters
AllTagsStage(r, filters) ==
    IF r.threw \/ ~HasTagFilter(filters) THEN r
    ELSE IF TagsThrow(r) THEN Threw
    ELSE Returned(Restrict(r.value,
            [k \in DOMAIN r.value |-> AllTagsKeep(r.value[k], filters)]))

\* PromptDataManager.applyFilters: returns the filtered prompts or throws
DataManager_applyFilters(prompts, filters) ==
    AnyTagStage(FavoriteStage(RoleStage(SearchStage(Returned(prompts), filters), filters),
                              filters), filters)

\* PromptLibraryUI.applyFilters: catches, and reports success and filteredPrompts
LibraryUI_applyFilters(prompts, filters) ==
    LET r == AllTagsStage(FavoriteStage(RoleStage(SearchStage(Returned(prompts), filters),
                                                  filters), filters), filters)
    IN  IF r.threw THEN [success |-> FALSE, filteredPrompts |-> <<>>]
        ELSE [success |-> TRUE, filteredPrompts |-> r.value]

\* number of records of FilterPool the record sets are drawn from
MaxFilterRecords == 3

TaggedRecord(id, name, content, role, fav, tags) ==
    SetMeta(CompleteRecord(id, name, content, role, fav, 1, Null), "tags", Arr(tags))

FilterPool ==
    <<TaggedRecord("p1", <<"a">>, <<"b", "\n", "b">>, "user", FALSE, <<Str(<<"x">>)>>),
      TaggedRecord("p2", <<"B">>, <<"a", " ", "b">>, "system", TRUE, <<Str(<<"x">>), Str(<<"y">>)>>),
      TaggedRecord("p3", <<"b", "a">>, <<"b">>, "system", FALSE, <<>>),
      TaggedRecord("p4", <<"A", "b">>, <<"a">>, "assistant", TRUE, <<Str(<<"y">>)>>),
      TaggedRecord("p5", <<"b">>, <<"b">>, "user", TRUE, <<Str(<<"y">>), Str(<<"x">>)>>)>>

\* the key under which a record with this id is stored
KeyOf(id) == id.s

\* the stores that hold the records of a set, each under its id
Keyed(records) ==
    [k \in {KeyOf(Get(r, "id")) : r \in records} |->
        CHOOSE r \in records : KeyOf(Get(r, "id")) = k]

FilterChoices ==
    {Obj(search @@ role @@ favorite @@ tags) :
        search \in {<<>>} \cup {[search |-> Str(t)] : t \in {<<" ">>, <<"a">>, <<"B", " ">>, <<"x">>}},
        role \in {<<>>} \cup {[role |-> Str(<<r>>)] : r \in {"all", "system", "user"}},
        favorite \in {<<>>} \cup {[favorite |-> f] : f \in {Null, Bool(TRUE), Bool(FALSE)}},
        tags \in {<<>>} \cup {[tags |-> Arr(t)] :
                    t \in {<<>>, <<Str(<<"x">>)>>, <<Str(<<"x">>), Str(<<"y">>)>>}}}

InitFilter ==
    /\ IdleStore
    /\ last = NoOp
    /\ input \in {[prompts |-> Keyed(rs), filters |-> f] :
                    rs \in SUBSET {FilterPool[i] : i \in 1..MaxFilterRecords},
                    f \in FilterChoices}

CallDataManagerApplyFilters ==
    /\ last' = [op |-> "PromptDataManager.applyFilters",
                result |-> DataManager_applyFilters(input.prompts, input.filters)]
    /\ UNCHANGED <<store, before, exported, now, idCounter, input, waiting, preset, tasks, filterCache, debounced>>

CallLibraryUIApplyFilters ==
    /\ last' = [op |-> "PromptLibraryUI.applyFilters",
                result |-> LibraryUI_applyFilters(input.prompts, input.filters)]
    /\ UNCHANGED <<store, before, exported, now, idCounter, input, waiting, preset, tasks, filterCache, debounced>>

NextFilter == CallDataManagerApplyFilters \/ CallLibraryUIApplyFilters

SpecFilter == InitFilter /\ [][NextFilter]_vars

\* the criteria of a filter specification, as the filter/sort query states them
MeetsSearch(prompt, filters) ==
    HasSearch(filters) =>
        LET term == Trim(ToLowerCase(Get(filters, "search").s))
            tags == Get(Get(prompt, "metadata"), "tags").a
        IN  \/ Includes(ToLowerCase(Get(prompt, "name").s), term)
            \/ Includes(ToLowerCase(Get(prompt, "content").s), term)
            \/ \E i \in 1..Len(tags) : Includes(ToLowerCase(tags[i].s), term)

MeetsRole(prompt, filters) ==
    (HasKey(filters, "role") /\ Get(filters, "role") # Str(<<"all">>))
        => Get(prompt, "role") = Get(filters, "role")

MeetsFavorite(prompt, filters) ==
    (HasKey(filters, "favorite") /\ Get(filters, "favorite") # Null)
        => Get(Get(prompt, "metadata"), "favorite") = Get(filters, "favorite")

MeetsTags(prompt, filters) ==
    HasTagFilter(filters) =>
        LET tags == Get(Get(prompt, "metadata"), "tags").a
        IN  \A i \in 1..Len(Get(filters, "tags").a) :
                \E j \in 1..Len(tags) : tags[j] = Get(filters, "tags").a[i]

MeetsAll(prompt, filters) ==
    /\ MeetsSearch(prompt, filters)
    /\ MeetsRole(prompt, filters)
    /\ MeetsFavorite(prompt, filters)
    /\ MeetsTags(prompt, filters)

Matching(prompts, filters) ==
    [k \in {x \in DOMAIN prompts : MeetsAll(prompts[x], filters)} |-> prompts[k]]

\* the prompts a call of either applyFilters handed back
FilterOutput ==
    IF last.op = "PromptDataManager.applyFilters"
    THEN (IF last.result.threw THEN Threw ELSE Returned(last.result.value))
    ELSE (IF last.result.success THEN Returned(last.result.filteredPrompts) ELSE Threw)

IsFilterCall == last.op \in {"PromptDataManager.applyFilters", "PromptLibraryUI.applyFilters"}

\* C6: for any record set and any filter specification, applyFilters (of the
\* data manager and of the library UI) returns exactly the records that
\* satisfy every criterion given: search substring, role equality, favorite
\* equality and tags; with role = 'system' every returned record has role
\* 'system' and no 'system' record meeting the other criteria is missing.
C6_FiltersAreConjunction ==
    IsFilterCall => FilterOutput = Returned(Matching(input.prompts, input.filters))

\* C7: with one or more tags in the filter only records holding every listed
\* tag are returned, by PromptDataManager.applyFilters and by
\* PromptLibraryUI.applyFilters alike, so that the two return the same subset.
C7_TagFilterIsMembershipAll ==
    IsFilterCall =>
        /\ ~FilterOutput.threw
        /\ HasTagFilter(input.filters) =>
              \A k \in DOMAIN FilterOutput.value : MeetsTags(FilterOutput.value[k], input.filters)
        /\ DataManager_applyFilters(input.prompts, input.filters).value
              = LibraryUI_applyFilters(input.prompts, input.filters).filteredPrompts

-----------------------------------------------------------------------------
(* Sorting *)

\* UTF-16 code units of the characters used in names
CodeUnit(c) ==
    CASE c = "\n" -> 10
      [] c = " " -> 32
      [] c = "A" -> 65
      [] c = "B" -> 66
      [] c = "a" -> 97
      [] c = "b" -> 98

\* primary collation weight: letters after white space, case ignored
CollationWeight(c) == CodeUnit(LowerOf(c))

\* -1, 0 or 1 as the sequence of keys of x is before, equal to or after that of y
CompareKeys(x, y, Key(_)) ==
    LET differ == {i \in 1..Len(x) : i <= Len(y) /\ Key(x[i]) # Key(y[i])}
        first == CHOOSE i \in differ : \A j \in differ : i <= j
    IN  IF differ # {} THEN (IF Key(x[first]) < Key(y[first]) THEN -1 ELSE 1)
        ELSE IF Len(x) < Len(y) THEN -1
        ELSE IF Len(x) > Len(y) THEN 1
        ELSE 0

\* tertiary weight: at equal letters the lower-case one comes first
CaseWeight(c) == IF LowerOf(c) = c THEN 0 ELSE 1

\* comparison of strings by code units (the < of the language)
CodeUnitCompare(x, y) == CompareKeys(x, y, CodeUnit)

\* String.prototype.localeCompare with the default collator: letters are
\* compared without regard to case, and case only breaks ties
localeCompare(x, y) ==
    IF CompareKeys(x, y, CollationWeight) # 0
    THEN CompareKeys(x, y, CollationWeight)
    ELSE CompareKeys(x, y, CaseWeight)

\* Array.prototype.sort(cmp): a stable sort; each element in turn goes
\* behind the last one already placed that cmp does not put after it
InsertSorted(sorted, x, Cmp(_, _)) ==
    LET fits == {i \in 1..Len(sorted) : Cmp(sorted[i], x) <= 0}
        p == IF fits = {} THEN 0 ELSE CHOOSE i \in fits : \A j \in fits : j <= i
    IN  SubSeq(sorted, 1, p) \o <<x>> \o SubSeq(sorted, p + 1, Len(sorted))

Sort(array, Cmp(_, _)) ==
    LET placed[n \in 0..Len(array)] ==
            IF n = 0 THEN <<>> ELSE InsertSorted(placed[n - 1], array[n], Cmp)
    IN  placed[Len(array)]

\* new Date(v).getTime(): NaN is modelled as the record [nan |-> TRUE]
DateOf(v) ==
    IF v = Null THEN [nan |-> FALSE, ms |-> 0]
    ELSE IF ParsesAsDate(v) THEN [nan |-> FALSE, ms |-> v.date.time]
    ELSE [nan |-> TRUE]

\* d1 - d2 as a comparator result; sort treats NaN as 0
DateMinus(d1, d2) == IF d1.nan \/ d2.nan THEN 0 ELSE d1.ms - d2.ms

LastUsed(prompt) == Get(Get(prompt, "metadata"), "last_used")
CreatedAt(prompt) == Get(Get(prompt, "metadata"), "created_at")
NameOf(prompt) == Get(prompt, "name").s

\* a.metadata.last_used || a.metadata.created_at
UsedOrCreated(prompt) == Or(LastUsed(prompt), CreatedAt(prompt))

\* a.metadata.last_used ? new Date(a.metadata.last_used) : new Date(0)
UsedOrEpoch(prompt) ==
    IF Truthy(LastUsed(prompt)) THEN DateOf(LastUsed(prompt)) ELSE [nan |-> FALSE, ms |-> 0]

SortPrompts_latest(a, b) == DateMinus(DateOf(UsedOrCreated(b)), DateOf(UsedOrCreated(a)))
SortPrompts_oldest(a, b) == DateMinus(DateOf(UsedOrCreated(a)), DateOf(UsedOrCreated(b)))
SortPrompts_name(a, b) == localeCompare(NameOf(a), NameOf(b))
ByCreated(a, b) == DateMinus(DateOf(CreatedAt(b)), DateOf(CreatedAt(a)))

\* PromptLibraryUI.sortPrompts
sortPrompts(prompts, sortBy) ==
    CASE sortBy = "latest_used" -> Sort(prompts, SortPrompts_latest)
      [] sortBy = "oldest_used" -> Sort(prompts, SortPrompts_oldest)
      [] sortBy = "name" -> Sort(prompts, SortPrompts_name)
      [] sortBy = "created" -> Sort(prompts, ByCreated)
      [] OTHER -> prompts

ApplySorting_latest(a, b) == DateMinus(UsedOrEpoch(b), UsedOrEpoch(a))

ApplySorting_oldest(a, b) ==
    IF ~Truthy(LastUsed(a)) /\ ~Truthy(LastUsed(b)) THEN 0
    ELSE IF ~Truthy(LastUsed(a)) THEN 1
    ELSE IF ~Truthy(LastUsed(b)) THEN -1
    ELSE DateMinus(UsedOrEpoch(a), UsedOrEpoch(b))

ApplySorting_name(a, b) == localeCompare(ToLowerCase(NameOf(a)), ToLowerCase(NameOf(b)))

\* sortedArray.forEach(prompt => sortedPrompts[prompt.id] = prompt): the
\* values of the resulting object in its key order; a key assigned again
\* keeps its place and takes the new value
RECURSIVE KeyedInOrder(_, _)
KeyedInOrder(done, rest) ==
    IF rest = <<>> THEN done
    ELSE LET x == Head(rest)
             same == {i \in 1..Len(done) : Get(done[i], "id") = Get(x, "id")}
         IN  IF same = {} THEN KeyedInOrder(Append(done, x), Tail(rest))
             ELSE KeyedInOrder([i \in 1..Len(done) |-> IF i \in same THEN x ELSE done[i]],
                               Tail(rest))

\* PromptLibraryUI.applySorting on Object.values(prompts); sortedPrompts is
\* given as the sequence of its values
applySorting(promptArray, sortBy) ==
    LET sortedArray ==
            CASE sortBy = "latest_used" -> Sort(promptArray, ApplySorting_latest)
              [] sortBy = "oldest_used" -> Sort(promptArray, ApplySorting_oldest)
              [] sortBy = "name" -> Sort(promptArray, ApplySorting_name)
              [] sortBy = "created" -> Sort(promptArray, ByCreated)
              [] OTHER -> promptArray
    IN  [success |-> TRUE, sortedPrompts |-> KeyedInOrder(<<>>, sortedArray)]

\* longest list of records handed to the sort functions
MaxSortRecords == 3

SortPool ==
    {CompleteRecord("p1", <<"b">>, <<"a">>, "user", FALSE, 1, DateStr("iso", 6)),
     CompleteRecord("p2", <<"A">>, <<"a">>, "user", FALSE, 4, Null),
     CompleteRecord("p3", <<"a">>, <<"a">>, "user", FALSE, 2, DateStr("iso", 3)),
     CompleteRecord("p4", <<"B">>, <<"a">>, "user", FALSE, 5, Null),
     CompleteRecord("p5", <<"a", "B">>, <<"a">>, "user", FALSE, 3, DateStr("iso", 8))}

\* the lists of up to n distinct records of a pool
RECURSIVE ListsUpTo(_, _)
ListsUpTo(pool, n) ==
    IF n = 0 THEN {<<>>}
    ELSE LET shorter == ListsUpTo(pool, n - 1)
         IN  shorter \cup {Append(l, r) : l \in shorter,
                                          r \in {x \in pool : TRUE}}

Distinct(list) == \A i, j \in 1..Len(list) : list[i] = list[j] => i = j

SortChoices == {"latest_used", "oldest_used", "name", "created", "none"}

InitSort ==
    /\ IdleStore
    /\ last = NoOp
    /\ input \in {[prompts |-> l, sortBy |-> c] :
                    l \in {x \in ListsUpTo(SortPool, MaxSortRecords) : Distinct(x)},
                    c \in SortChoices}

CallApplySorting ==
    /\ last' = [op |-> "applySorting",
                result |-> applySorting(input.prompts, input.sortBy).sortedPrompts]
    /\ UNCHANGED <<store, before, exported, now, idCounter, input, waiting, preset, tasks, filterCache, debounced>>

CallSortPrompts ==
    /\ last' = [op |-> "sortPrompts", result |-> sortPrompts(input.prompts, input.sortBy)]
    /\ UNCHANGED <<store, before, exported, now, idCounter, input, waiting, preset, tasks, filterCache, debounced>>

NextSort == CallApplySorting \/ CallSortPrompts

SpecSort == InitSort /\ [][NextSort]_vars

IsSortCall == last.op \in {"applySorting", "sortPrompts"}

IsPermutation(l, m) ==
    /\ Len(l) = Len(m)
    /\ \A x \in {l[i] : i \in 1..Len(l)} \cup {m[i] : i \in 1..Len(m)} :
          Cardinality({i \in 1..Len(l) : l[i] = x}) = Cardinality({i \in 1..Len(m) : m[i] = x})

\* s is lexicographically at or before t
LexLeq(s, t) == CompareKeys(s, t, CodeUnit) <= 0

NeverUsed(prompt) == ~Truthy(LastUsed(prompt))

\* C9: under 'latest_used' and 'oldest_used', by applySorting and by
\* sortPrompts, the records without metadata.last_used are placed at one end
\* of the result, never between two records that have a last_used timestamp.
C9_NeverUsedAtOneEnd ==
    (IsSortCall /\ input.sortBy \in {"latest_used", "oldest_used"}) =>
        \A i, j, k \in 1..Len(last.result) :
            (i < j /\ j < k /\ NeverUsed(last.result[j]))
                => (NeverUsed(last.result[i]) \/ NeverUsed(last.result[k]))

-----------------------------------------------------------------------------
(* The prompt store and its operations *)

\* settings.max_prompts (1000 unless configured)
MaxPromptsSetting == 3

\* number of identifiers generatePromptId may hand out in a run
MaxGenerated == 2

\* number of operations in a run; the clock advances by one with each
MaxOps == 2

\* number of records found in the persisted settings at start
MaxInitialRecords == 2

StoreKeys == <<"p1", "p2", "p3", "p4", "p5", "p6">> \o GeneratedIds

\* position of a key in a fixed enumeration of the keys
KeyRank(k) == CHOOSE i \in 1..Len(StoreKeys) : StoreKeys[i] = k[1]

IsValid(promptData) == validatePromptData(promptData).isValid

\* the stored entries for which repairPromptData calls generatePromptId
NeedsId(prompts) ==
    {k \in DOMAIN prompts : ~IsValid(prompts[k]) /\ ~Truthy(Get(prompts[k], "id"))}

\* the identifier generatePromptId returns while the entry at key k is repaired
FreshIdFor(prompts, k, n) ==
    generatePromptId(n + 1 + Cardinality({j \in NeedsId(prompts) : KeyRank(j) < KeyRank(k)}))

\* the loop of getPrompts over the stored entries: valid entries stay,
\* invalid ones are replaced by their repair or deleted
RepairedEntry(prompts, k, time, n) ==
    IF IsValid(prompts[k]) THEN prompts[k]
    ELSE repairPromptData(prompts[k], time, FreshIdFor(prompts, k, n))

\* a loop that repairs but never deletes: an entry that cannot be repaired stays
RepairAllKeepsUnrepairable(prompts, time, n) ==
    [store |-> [k \in DOMAIN prompts |->
                    IF RepairedEntry(prompts, k, time, n) # Null
                    THEN RepairedEntry(prompts, k, time, n) ELSE prompts[k]],
     idCounter |-> n + Cardinality(NeedsId(prompts)),
     saved |-> FALSE]

RepairAll(prompts, time, n) ==
    LET kept == {k \in DOMAIN prompts : RepairedEntry(prompts, k, time, n) # Null}
    IN  [store |-> [k \in kept |-> RepairedEntry(prompts, k, time, n)],
         idCounter |-> n + Cardinality(NeedsId(prompts)),
         saved |-> Cardinality(kept) # Cardinality(DOMAIN prompts)]

\* what getPrompts returns once its loop has left r: validPrompts, or
\* applyFilters of it when filters has keys ({} when applyFilters throws)
ReturnPrompts(r, filters) ==
    LET filtered == DataManager_applyFilters(r.store, filters)
    IN  [store |-> r.store, idCounter |-> r.idCounter, saved |-> r.saved,
         result |-> IF DOMAIN Props(filters) = {} THEN r.store
                    ELSE IF filtered.threw THEN <<>>
                    ELSE filtered.value]

\* PromptDataManager.getPrompts(filters): the store it leaves, the prompts it
\* returns and whether it called saveSettingsDebounced
getPrompts(prompts, filters, time, n) == ReturnPrompts(RepairAll(prompts, time, n), filters)

Failure(error, message) == [success |-> FALSE, error |-> error, message |-> message]

\* a save that never looks at max_prompts
StoreCompleteUncapped(prompts, complete, current, n1) ==
    IF ~IsValid(complete)
    THEN [store |-> prompts, idCounter |-> n1, saved |-> FALSE,
          result |-> Failure("Prompt validation failed", "Failed to save prompt")]
    ELSE [store |-> (KeyOf(Get(complete, "id")) :> complete) @@ current.store,
          idCounter |-> current.idCounter, saved |-> TRUE,
          result |-> [success |-> TRUE, promptData |-> complete,
                      message |-> "Prompt saved successfully"]]

\* savePrompt from its validation on: complete is the record
\* createPromptData built, current what getPrompts() leaves and returns
StoreComplete(prompts, complete, current, n1) ==
    LET key == KeyOf(Get(complete, "id"))
    IN  IF ~IsValid(complete)
        THEN [store |-> prompts, idCounter |-> n1, saved |-> FALSE,
              result |-> Failure("Prompt validation failed", "Failed to save prompt")]
        ELSE IF Cardinality(DOMAIN current.result) >= MaxPromptsSetting
                /\ key \notin DOMAIN current.result
        THEN [store |-> current.store, idCounter |-> current.idCounter, saved |-> current.saved,
              result |-> Failure("Storage limit reached", "Failed to save prompt")]
        ELSE [store |-> (key :> complete) @@ current.store,
              idCounter |-> current.idCounter, saved |-> TRUE,
              result |-> [success |-> TRUE, promptData |-> complete,
                          message |-> "Prompt saved successfully"]]

\* the number of identifiers handed out once createPromptData has run
AfterCreate(promptData, n) == IF Truthy(Get(promptData, "id")) THEN n ELSE n + 1

\* PromptDataManager.savePrompt
savePrompt(prompts, promptData, time, n) ==
    StoreComplete(prompts,
                  createPromptData(promptData, time, generatePromptId(n + 1)),
                  getPrompts(prompts, EmptyObj, time, AfterCreate(promptData, n)),
                  AfterCreate(promptData, n))

\* PromptDataManager.loadPrompt: result is the record or null
loadPrompt(prompts, promptId, time, n) ==
    IF promptId \notin DOMAIN prompts \/ ~Truthy(prompts[promptId])
    THEN [store |-> prompts, idCounter |-> n, saved |-> FALSE, result |-> Null]
    ELSE IF IsValid(prompts[promptId])
    THEN [store |-> prompts, idCounter |-> n, saved |-> FALSE, result |-> prompts[promptId]]
    ELSE LET usesFresh == ~Truthy(Get(prompts[promptId], "id"))
             repaired == repairPromptData(prompts[promptId], time, generatePromptId(n + 1))
             n1 == IF usesFresh THEN n + 1 ELSE n
         IN  IF repaired # Null
             THEN [store |-> (promptId :> repaired) @@ prompts, idCounter |-> n1,
                   saved |-> TRUE, result |-> repaired]
             ELSE [store |-> prompts, idCounter |-> n1, saved |-> FALSE, result |-> Null]

Without(prompts, key) == [k \in DOMAIN prompts \ {key} |-> prompts[k]]

\* a delete that reports success for an id that is not stored
deletePromptIgnoresMissing(prompts, promptId, n) ==
    [store |-> Without(prompts, promptId), idCounter |-> n, saved |-> TRUE,
     result |-> [success |-> TRUE, message |-> "Prompt deleted successfully"]]

\* PromptDataManager.deletePrompt
deletePrompt(prompts, promptId, n) ==
    IF promptId \notin DOMAIN prompts \/ ~Truthy(prompts[promptId])
    THEN [store |-> prompts, idCounter |-> n, saved |-> FALSE,
          result |-> Failure("Prompt not found", "Prompt does not exist")]
    ELSE [store |-> Without(prompts, promptId), idCounter |-> n, saved |-> TRUE,
          result |-> [success |-> TRUE, message |-> "Prompt deleted successfully"]]

\* PromptDataManager.updatePromptMetadata: loadPrompt hands back the stored
\* object itself, so the assignment to promptData.metadata changes the
\* stored record before the merged record is validated
MergeMetadata(loaded, promptId, metadata) ==
    LET merged == With(loaded.result, "metadata",
                       Spread(Get(loaded.result, "metadata"), metadata))
        mutated == (promptId :> merged) @@ loaded.store
    IN  IF ~Truthy(loaded.result)
        THEN [store |-> loaded.store, idCounter |-> loaded.idCounter, saved |-> loaded.saved,
              result |-> Failure("Prompt not found", "Prompt does not exist")]
        ELSE IF ~IsValid(merged)
        THEN [store |-> mutated, idCounter |-> loaded.idCounter, saved |-> loaded.saved,
              result |-> Failure("Validation failed", "Invalid metadata update")]
        ELSE [store |-> mutated, idCounter |-> loaded.idCounter, saved |-> TRUE,
              result |-> [success |-> TRUE, promptData |-> merged,
                          message |-> "Prompt metadata updated successfully"]]

updatePromptMetadata(prompts, promptId, metadata, time, n) ==
    MergeMetadata(loadPrompt(prompts, promptId, time, n), promptId, metadata)

\* PromptSaverManager.toggleFavorite from the result of its
\* updatePromptMetadata call on
ToggleUpdated(updateResult, newFavoriteStatus) ==
    [store |-> updateResult.store, idCounter |-> updateResult.idCounter,
     result |-> IF updateResult.result.success
                THEN [success |-> TRUE, favorite |-> newFavoriteStatus,
                      message |-> "Favorite status changed"]
                ELSE Failure(updateResult.result.error, "Failed to toggle favorite status")]

\* a toggle that does not negate: it marks the record as a favorite
ToggleLoadedSetsFavorite(loaded, promptId, time) ==
    IF ~Truthy(loaded.result)
    THEN [store |-> loaded.store, idCounter |-> loaded.idCounter,
          result |-> Failure("Prompt not found", "Failed to toggle favorite status")]
    ELSE ToggleUpdated(updatePromptMetadata(loaded.store, promptId,
                                            Obj([favorite |-> Bool(TRUE)]),
                                            time, loaded.idCounter),
                       Bool(TRUE))

\* PromptSaverManager.toggleFavorite from the result of its loadPrompt call
\* on; reading metadata.favorite of a record without metadata throws
ToggleLoaded(loaded, promptId, time) ==
    IF ~Truthy(loaded.result)
    THEN [store |-> loaded.store, idCounter |-> loaded.idCounter,
          result |-> Failure("Prompt not found", "Failed to toggle favorite status")]
    ELSE IF NoMetadata(loaded.result)
    THEN [store |-> loaded.store, idCounter |-> loaded.idCounter,
          result |-> Failure("TypeError", "Failed to toggle favorite status")]
    ELSE ToggleUpdated(
            updatePromptMetadata(
                loaded.store, promptId,
                Obj([favorite |-> Bool(~Truthy(Get(Get(loaded.result, "metadata"), "favorite")))]),
                time, loaded.idCounter),
            Bool(~Truthy(Get(Get(loaded.result, "metadata"), "favorite"))))

toggleFavorite(prompts, promptId, time, n) ==
    ToggleLoaded(loadPrompt(prompts, promptId, time, n), promptId, time)

\* PromptSaverExtension.toggleFavorite: flips the flag of the stored object
Extension_toggleFavorite(prompts, promptId, n) ==
    IF promptId \notin DOMAIN prompts \/ NoMetadata(prompts[promptId])
    THEN [store |-> prompts, idCounter |-> n, result |-> Undef]
    ELSE [store |-> (promptId :>
                        With(prompts[promptId], "metadata",
                             With(Get(prompts[promptId], "metadata"), "favorite",
                                  Bool(~Truthy(Get(Get(prompts[promptId], "metadata"),
                                                   "favorite"))))))
                    @@ prompts,
          idCounter |-> n, result |-> Undef]

\* PresetIntegrator.getCurrentPreset: the host's preset when it has prompts
getCurrentPreset(host) ==
    IF Truthy(host) /\ Truthy(Get(host, "prompts")) THEN host ELSE Null

\* the newPrompt object applyPrompt builds from the stored record
NewPresetPrompt(promptData, uniqueIdentifier) ==
    Obj([identifier |-> uniqueIdentifier,
         name |-> Get(promptData, "name"),
         content |-> Get(promptData, "content"),
         role |-> Get(promptData, "role"),
         system_prompt |-> Get(promptData, "system_prompt"),
         marker |-> Get(promptData, "marker"),
         injection_position |-> Get(promptData, "injection_position"),
         injection_depth |-> Get(promptData, "injection_depth"),
         injection_order |-> Get(promptData, "injection_order"),
         forbid_overrides |-> Get(promptData, "forbid_overrides"),
         enabled |-> Bool(TRUE)])

\* the three tests updatePresetPrompts makes on a prompt
PresetPromptRejected(prompt) ==
    \/ ~Truthy(Get(prompt, "identifier"))
    \/ ~Truthy(Get(prompt, "name"))
    \/ Get(prompt, "content") \in {Undef, Null}

\* the object updatePresetPrompts maps a prompt to: defaults, then ...prompt
ValidatedPresetPrompt(prompt) ==
    Spread(Obj([identifier |-> Get(prompt, "identifier"),
                name |-> Get(prompt, "name"),
                content |-> Get(prompt, "content"),
                role |-> Or(Get(prompt, "role"), Str(<<"user">>)),
                system_prompt |-> Or(Get(prompt, "system_prompt"), Bool(FALSE)),
                marker |-> Or(Get(prompt, "marker"), Bool(FALSE)),
                injection_position |-> Or(Get(prompt, "injection_position"), Num(0)),
                injection_depth |-> Or(Get(prompt, "injection_depth"), Num(4)),
                injection_order |-> Or(Get(prompt, "injection_order"), Num(100)),
                forbid_overrides |-> Or(Get(prompt, "forbid_overrides"), Bool(FALSE)),
                enabled |-> IF Get(prompt, "enabled") # Undef
                            THEN Get(prompt, "enabled") ELSE Bool(TRUE)]),
           prompt)

\* PresetIntegrator.updatePresetPrompts(newPrompts) on the current preset
updatePresetPrompts(host, newPrompts) ==
    IF getCurrentPreset(host) = Null
    THEN [preset |-> host,
          result |-> Failure("No current preset available", "Failed to update preset prompts")]
    ELSE IF \E i \in 1..Len(newPrompts) : PresetPromptRejected(newPrompts[i])
    THEN [preset |-> host,
          result |-> Failure("Prompt missing a field", "Failed to update preset prompts")]
    ELSE [preset |->
            With(With(host, "prompts",
                      Arr([i \in 1..Len(newPrompts) |-> ValidatedPresetPrompt(newPrompts[i])])),
                 "prompt_order",
                 Arr([i \in 1..Len(newPrompts) |-> Get(newPrompts[i], "identifier")])),
          result |-> [success |-> TRUE, message |-> "Preset prompts updated successfully"]]

\* (promptData.metadata.usage_count || 0) + 1
NextUsageCount(promptData) ==
    IF Truthy(Get(Get(promptData, "metadata"), "usage_count"))
    THEN Num(Get(Get(promptData, "metadata"), "usage_count").n + 1)
    ELSE Num(1)

\* the end of applyPrompt: the preset has been updated, the usage metadata
\* is written through updatePromptMetadata, whose result is not looked at;
\* reading metadata.usage_count of a record without metadata throws
ApplyCountsUsage(updated, prompts, promptData, promptId, time, n) ==
    IF ~updated.result.success
    THEN [store |-> prompts, idCounter |-> n, preset |-> updated.preset,
          result |-> Failure(updated.result.error, "Failed to apply prompt")]
    ELSE IF NoMetadata(promptData)
    THEN [store |-> prompts, idCounter |-> n, preset |-> updated.preset,
          result |-> Failure("TypeError", "Failed to apply prompt")]
    ELSE [store |-> updatePromptMetadata(
                        prompts, promptId,
                        Obj([last_used |-> ToISOString(time),
                             usage_count |-> NextUsageCount(promptData)]),
                        time, n).store,
          idCounter |-> n, preset |-> updated.preset,
          result |-> [success |-> TRUE, message |-> "Prompt applied successfully"]]

\* an apply that writes the preset and leaves the usage metadata alone
ApplyLoadedCountsNothing(loaded, host, promptId, time) ==
    IF ~Truthy(loaded.result)
    THEN [store |-> loaded.store, idCounter |-> loaded.idCounter, preset |-> host,
          result |-> Failure("Prompt not found", "Failed to apply prompt")]
    ELSE IF getCurrentPreset(host) = Null
    THEN [store |-> loaded.store, idCounter |-> loaded.idCounter, preset |-> host,
          result |-> Failure("No current preset available", "Failed to apply prompt")]
    ELSE [store |-> loaded.store, idCounter |-> loaded.idCounter + 1,
          preset |-> updatePresetPrompts(
                        host,
                        Append(Get(host, "prompts").a,
                               NewPresetPrompt(loaded.result,
                                               generatePromptId(loaded.idCounter + 1)))).preset,
          result |-> [success |-> TRUE, message |-> "Prompt applied successfully"]]

\* PromptSaverManager.applyPrompt from the result of its loadPrompt call on
ApplyLoaded(loaded, host, promptId, time) ==
    IF ~Truthy(loaded.result)
    THEN [store |-> loaded.store, idCounter |-> loaded.idCounter, preset |-> host,
          result |-> Failure("Prompt not found", "Failed to apply prompt")]
    ELSE IF getCurrentPreset(host) = Null
    THEN [store |-> loaded.store, idCounter |-> loaded.idCounter, preset |-> host,
          result |-> Failure("No current preset available", "Failed to apply prompt")]
    ELSE ApplyCountsUsage(
            updatePresetPrompts(
                host,
                Append(Get(host, "prompts").a,
                       NewPresetPrompt(loaded.result, generatePromptId(loaded.idCounter + 1)))),
            loaded.store, loaded.result, promptId, time, loaded.idCounter + 1)

applyPrompt(prompts, host, promptId, time, n) ==
    ApplyLoaded(loadPrompt(prompts, promptId, time, n), host, promptId, time)

\* PromptLibraryUI.handleDeletePrompt as the class body first defines it:
\* dataManager.deletePrompt, then refreshPromptList, which reads the store
\* through getPrompts
RefreshAfterDelete(deleted, time) ==
    IF deleted.result.success
    THEN [store |-> getPrompts(deleted.store, EmptyObj, time, deleted.idCounter).store,
          idCounter |-> getPrompts(deleted.store, EmptyObj, time, deleted.idCounter).idCounter,
          result |-> Undef]
    ELSE [store |-> deleted.store, idCounter |-> deleted.idCounter, result |-> Undef]

HandleDeleteThroughDataManager(prompts, promptId, time, n) ==
    RefreshAfterDelete(deletePrompt(prompts, promptId, n), time)

\* PromptLibraryUI.handleDeletePrompt as the class body defines it again
\* further down; of two methods with one name the later one is the method
\* of the class, so this is what the delete button of a card calls
handleDeletePrompt(prompts, promptId, n) ==
    [store |-> prompts, idCounter |-> n, result |-> Undef]

\* the exportData object built around what getPrompts() returned
ExportData(got, time) ==
    [store |-> got.store, idCounter |-> got.idCounter, saved |-> got.saved,
     result |-> [success |-> TRUE,
                 data |-> Obj([version |-> Str(<<"1.0.0">>),
                               exported_at |-> ToISOString(time),
                               prompt_count |-> Num(Cardinality(DOMAIN got.result)),
                               prompts |-> Obj(got.result)]),
                 message |-> "Prompts exported successfully"]]

\* PromptDataManager.exportPrompts
exportPrompts(prompts, time, n) == ExportData(getPrompts(prompts, EmptyObj, time, n), time)

\* PromptDataManager.createAutomaticBackup: its only effect on the store is
\* that of the getPrompts() it starts with
createAutomaticBackup(prompts, time, n) == getPrompts(prompts, EmptyObj, time, n)

\* the importOptions object of importPrompts
ImportOptions(options) ==
    Spread(Obj([overwriteExisting |-> Or(Get(options, "overwriteExisting"), Bool(FALSE)),
                mergeMetadata |-> Bool(Get(options, "mergeMetadata") # Bool(FALSE)),
                validatePrompts |-> Bool(Get(options, "validatePrompts") # Bool(FALSE))]),
           options)

NoImports == [imported |-> 0, skipped |-> 0, errors |-> 0, details |-> <<>>]

Detail(promptId, status) == [id |-> promptId, status |-> status]

\* the end of a pass: saveResult is counted as imported or as an error
CountSaved(res, saved, promptId) ==
    [store |-> saved.store, idCounter |-> saved.idCounter,
     results |-> IF saved.result.success
                 THEN [res EXCEPT !.imported = @ + 1,
                                  !.details = Append(@, Detail(promptId, "imported"))]
                 ELSE [res EXCEPT !.errors = @ + 1,
                                  !.details = Append(@, Detail(promptId, "error"))]]

\* a pass for an entry that passed validation: existing is what getPrompts()
\* leaves and returns
ImportValid(res, existing, promptId, promptData, importOptions, exportedAt, time) ==
    LET exists == promptId \in DOMAIN existing.result
        importMeta == [imported_at |-> ToISOString(time), import_source |-> exportedAt]
        finalMeta ==
            IF exists /\ Truthy(Get(importOptions, "mergeMetadata"))
            THEN Spread(Spread(Get(promptData, "metadata"),
                               Get(existing.result[promptId], "metadata")),
                        Obj(importMeta))
            ELSE Spread(Get(promptData, "metadata"), Obj(importMeta))
    IN  IF exists /\ ~Truthy(Get(importOptions, "overwriteExisting"))
        THEN [store |-> existing.store, idCounter |-> existing.idCounter,
              results |-> [res EXCEPT !.skipped = @ + 1,
                                      !.details = Append(@, Detail(promptId, "skipped"))]]
        ELSE CountSaved(res,
                        savePrompt(existing.store, With(promptData, "metadata", finalMeta),
                                   time, existing.idCounter),
                        promptId)

\* one pass of the loop of importPrompts over an entry of parsedData.prompts;
\* acc holds the store, the identifier counter and importResults
ImportEntry(acc, promptId, promptData, importOptions, exportedAt, time) ==
    IF Truthy(Get(importOptions, "validatePrompts")) /\ ~IsValid(promptData)
    \* errors++ runs, then building the details entry reads
    \* validation.issues, which does not exist: the TypeError lands in
    \* the catch of the loop body, which counts the error once more
    THEN [acc EXCEPT !.results =
            [@ EXCEPT !.errors = @ + 2,
                      !.details = Append(@, Detail(promptId, "error"))]]
    ELSE ImportValid(acc.results, getPrompts(acc.store, EmptyObj, time, acc.idCounter),
                     promptId, promptData, importOptions, exportedAt, time)

ImportLoop(start, entries, order, importOptions, exportedAt, time) ==
    LET after[i \in 0..Len(order)] ==
            IF i = 0 THEN start
            ELSE ImportEntry(after[i - 1], order[i], entries[order[i]],
                             importOptions, exportedAt, time)
    IN  after[Len(order)]

\* a summary that reports skipped records as imported
ImportSummaryCountsSkipped(done) ==
    [store |-> done.store, idCounter |-> done.idCounter,
     result |-> [success |-> done.results.imported + done.results.skipped
                                 + done.results.errors > 0
                             /\ done.results.errors = 0,
                 imported |-> done.results.imported + done.results.skipped,
                 skipped |-> 0,
                 errors |-> done.results.errors,
                 totalProcessed |-> done.results.imported + done.results.skipped
                                        + done.results.errors,
                 details |-> done.results.details,
                 message |-> "Import completed"]]

\* the object importPrompts returns after its loop
ImportSummary(done) ==
    [store |-> done.store, idCounter |-> done.idCounter,
     result |-> [success |-> done.results.imported + done.results.skipped
                                 + done.results.errors > 0
                             /\ done.results.errors = 0,
                 imported |-> done.results.imported,
                 skipped |-> done.results.skipped,
                 errors |-> done.results.errors,
                 totalProcessed |-> done.results.imported + done.results.skipped
                                        + done.results.errors,
                 details |-> done.results.details,
                 message |-> "Import completed"]]

\* the loop started on what the backup step left
ImportAfterBackup(backup, importData, options, order, time) ==
    ImportLoop([store |-> backup.store, idCounter |-> backup.idCounter,
                results |-> NoImports],
               Props(Get(importData, "prompts")), order,
               ImportOptions(options), Get(importData, "exported_at"), time)

\* PromptDataManager.importPrompts on an object importData; order is the
\* order in which Object.entries lists parsedData.prompts
importPrompts(prompts, importData, options, order, time, n) ==
    IF ~Truthy(Get(importData, "version")) \/ ~Truthy(Get(importData, "exported_at"))
        \/ ~Truthy(Get(importData, "prompts"))
    THEN [store |-> prompts, idCounter |-> n,
          result |-> [success |-> FALSE, error |-> "Invalid import data structure",
                      imported |-> 0, skipped |-> 0, errors |-> 0,
                      message |-> "Import failed: Invalid import data structure"]]
    ELSE ImportSummary(
            ImportAfterBackup(IF Get(options, "createBackup") # Bool(FALSE)
                              THEN createAutomaticBackup(prompts, time, n)
                              ELSE [store |-> prompts, idCounter |-> n],
                              importData, options, order, time))

\* the orders in which a set of keys can be listed
Orderings(keys) ==
    {o \in [1..Cardinality(keys) -> keys] : \A i, j \in 1..Cardinality(keys) : o[i] = o[j] => i = j}

\* a promptData object that counts the save as a first use
PresetPromptDataUsedOnce(presetPrompt, promptName, currentPreset, promptId, time) ==
    Obj([id |-> promptId,
         name |-> Or(promptName, Or(Get(presetPrompt, "name"), Str(<<"Prompt">>))),
         content |-> Get(presetPrompt, "content"),
         role |-> Get(presetPrompt, "role"),
         metadata |-> Obj([created_at |-> ToISOString(time),
                           last_used |-> ToISOString(time),
                           favorite |-> Bool(FALSE),
                           usage_count |-> Num(1)])])

\* the promptData object PromptSaverManager.saveCurrentPrompt builds for a
\* prompt of the current preset
PresetPromptData(presetPrompt, promptName, currentPreset, promptId, time) ==
    Obj([id |-> promptId,
         name |-> Or(promptName,
                     Or(Get(presetPrompt, "name"),
                        Str(<<"Prompt from ">> \o Get(currentPreset, "name").s))),
         content |-> Get(presetPrompt, "content"),
         role |-> Get(presetPrompt, "role"),
         system_prompt |-> Or(Get(presetPrompt, "system_prompt"), Bool(FALSE)),
         marker |-> Or(Get(presetPrompt, "marker"), Bool(FALSE)),
         injection_position |-> Or(Get(presetPrompt, "injection_position"), Num(0)),
         injection_depth |-> Or(Get(presetPrompt, "injection_depth"), Num(4)),
         injection_order |-> Or(Get(presetPrompt, "injection_order"), Num(100)),
         forbid_overrides |-> Or(Get(presetPrompt, "forbid_overrides"), Bool(FALSE)),
         metadata |-> Obj([created_at |-> ToISOString(time),
                           last_used |-> Null,
                           favorite |-> Bool(FALSE),
                           usage_count |-> Num(0),
                           tags |-> Arr(<<>>),
                           source_preset |-> Or(Get(currentPreset, "name"),
                                                Str(<<"Unknown Preset">>))])])

\* the end of a pass of saveCurrentPrompt: saveResult goes to savedPrompts
\* or to errors
CountPresetSave(acc, saveResult) ==
    [store |-> saveResult.store, idCounter |-> saveResult.idCounter,
     savedPrompts |-> IF saveResult.result.success
                      THEN Append(acc.savedPrompts, saveResult.result.promptData)
                      ELSE acc.savedPrompts,
     errors |-> IF saveResult.result.success THEN acc.errors ELSE acc.errors + 1]

\* !content || content.trim().length === 0
BlankContent(prompt) ==
    \/ ~Truthy(Get(prompt, "content"))
    \/ Len(Trim(Get(prompt, "content").s)) = 0

\* one pass of the loop of saveCurrentPrompt over a prompt of the preset
SavePresetPrompt(acc, presetPrompt, promptName, currentPreset, time) ==
    IF BlankContent(presetPrompt) THEN acc
    ELSE IF ~Truthy(Get(presetPrompt, "role")) \/ Get(presetPrompt, "role") \notin Roles
    THEN [acc EXCEPT !.errors = @ + 1]
    ELSE CountPresetSave(acc,
            savePrompt(acc.store,
                       PresetPromptData(presetPrompt, promptName, currentPreset,
                                        generatePromptId(acc.idCounter + 1), time),
                       time, acc.idCounter + 1))

\* what saveCurrentPrompt returns after its loop
PresetOutcome(done) ==
    [store |-> done.store, idCounter |-> done.idCounter,
     result |-> IF Len(done.savedPrompts) = 0
                THEN Failure(IF done.errors > 0 THEN "No prompts could be saved"
                             ELSE "No valid prompts found to save",
                             "Failed to save current prompt")
                ELSE [success |-> TRUE, savedPrompts |-> done.savedPrompts,
                      promptData |-> done.savedPrompts[1],
                      message |-> "Successfully saved"]]

PresetLoop(start, list, promptName, currentPreset, time) ==
    LET after[i \in 0..Len(list)] ==
            IF i = 0 THEN start
            ELSE SavePresetPrompt(after[i - 1], list[i], promptName, currentPreset, time)
    IN  after[Len(list)]

\* PromptSaverManager.saveCurrentPrompt(promptName), currentPreset being what
\* presetIntegrator.getCurrentPreset() returns
saveCurrentPrompt(prompts, currentPreset, promptName, time, n) ==
    IF ~Truthy(currentPreset)
    THEN [store |-> prompts, idCounter |-> n,
          result |-> Failure("No current preset available", "Failed to save current prompt")]
    ELSE IF \/ ~Truthy(Get(currentPreset, "prompts"))
            \/ Get(currentPreset, "prompts").t # "array"
            \/ Len(Get(currentPreset, "prompts").a) = 0
    THEN [store |-> prompts, idCounter |-> n,
          result |-> Failure("Current preset has no prompts to save",
                             "Failed to save current prompt")]
    ELSE PresetOutcome(PresetLoop([store |-> prompts, idCounter |-> n,
                                   savedPrompts |-> <<>>, errors |-> 0],
                                  Get(currentPreset, "prompts").a,
                                  promptName, currentPreset, time))

\* the record PromptSaverExtension.saveCurrentPrompts writes for a prompt
ExtensionRecord(prompt, currentPreset, promptId, time) ==
    Obj([id |-> promptId,
         name |-> Or(Get(prompt, "name"),
                     Str(<<"Prompt from ">>
                             \o Or(Get(currentPreset, "name"), Str(<<"Unknown Preset">>)).s)),
         content |-> Get(prompt, "content"),
         role |-> Or(Get(prompt, "role"), Str(<<"user">>)),
         metadata |-> Obj([created_at |-> ToISOString(time),
                           source_preset |-> Or(Get(currentPreset, "name"), Str(<<"Unknown">>)),
                           favorite |-> Bool(FALSE),
                           usage_count |-> Num(0)])])

\* PromptSaverExtension.saveCurrentPrompts: it returns nothing
saveCurrentPrompts(prompts, currentPreset, time, n) ==
    IF ~Truthy(currentPreset) \/ ~Truthy(Get(currentPreset, "prompts"))
    THEN [store |-> prompts, idCounter |-> n, result |-> Undef]
    ELSE LET list == Get(currentPreset, "prompts").a
             after[i \in 0..Len(list)] ==
                IF i = 0 THEN [store |-> prompts, idCounter |-> n, result |-> Undef]
                ELSE IF BlankContent(list[i]) THEN after[i - 1]
                ELSE [store |-> (KeyOf(generatePromptId(after[i - 1].idCounter + 1))
                                    :> ExtensionRecord(list[i], currentPreset,
                                           generatePromptId(after[i - 1].idCounter + 1), time))
                                @@ after[i - 1].store,
                      idCounter |-> after[i - 1].idCounter + 1,
                      result |-> Undef]
         IN  after[Len(list)]

-----------------------------------------------------------------------------
(* Specification of the store *)

\* a record as PromptSaverExtension.saveCurrentPrompts writes it
LegacyRecord(id, name, content, role) ==
    Obj([id |-> Str(<<id>>), name |-> Str(name), content |-> Str(content),
         role |-> Str(<<role>>),
         metadata |-> Obj([created_at |-> DateStr("iso", 2),
                           source_preset |-> Str(<<"Default">>),
                           favorite |-> Bool(FALSE),
                           usage_count |-> Num(0)])])

\* entries the persisted settings may hold at start: sound records, a
\* record with injection_depth 0, a record written by saveCurrentPrompts,
\* and damaged entries (no id, no content, a date in another format)
PersistedPool ==
    {<<"p1", CompleteRecord("p1", <<"a">>, <<"a", "b">>, "user", FALSE, 1, Null)>>,
     <<"p2", SetField(CompleteRecord("p2", <<"B">>, <<"b">>, "system", TRUE, 2, DateStr("iso", 3)),
                      "injection_depth", Num(0))>>,
     <<"p3", LegacyRecord("p3", <<"b">>, <<"a">>, "assistant")>>,
     <<"p4", SetField(CompleteRecord("p4", <<"a">>, <<"b">>, "user", FALSE, 1, Null), "id", Undef)>>,
     <<"p5", SetField(CompleteRecord("p5", <<"b">>, <<"a">>, "user", FALSE, 1, Null), "content", Undef)>>,
     <<"p6", SetMeta(CompleteRecord("p6", <<"A">>, <<"a">>, "user", FALSE, 1, Null),
                     "created_at", DateStr("plain", 1))>>}

StoreOf(entries) ==
    [k \in {<<e[1]>> : e \in entries} |-> (CHOOSE e \in entries : <<e[1]>> = k)[2]]

SaveInputs ==
    {Obj([name |-> Str(<<"a">>), content |-> Str(<<"b">>), role |-> Str(<<"user">>)]),
     Obj([id |-> Str(<<"p1">>), name |-> Str(<<"B">>), content |-> Str(<<"a">>),
          role |-> Str(<<"system">>), injection_depth |-> Num(0)]),
     Obj([id |-> Str(<<"p2">>), name |-> Str(<<"a">>), content |-> Str(<<" ">>)])}

MetadataInputs(time) ==
    {Obj([favorite |-> Bool(TRUE)]),
     Obj([usage_count |-> Num(-1)]),
     Obj([usage_count |-> Num(1), last_used |-> ToISOString(time)])}

Payload(version, entries) ==
    Obj([version |-> version, exported_at |-> DateStr("iso", 4), prompts |-> Obj(StoreOf(entries))])

CraftedPayloads ==
    {Payload(Str(<<"1.0.0">>),
             {<<"p1", CompleteRecord("p1", <<"A", "b">>, <<"b">>, "user", TRUE, 3, Null)>>,
              <<"p2", SetField(LegacyRecord("p2", <<"a">>, <<"a">>, "user"), "name", Undef)>>}),
     Payload(Str(<<"1.0.0">>),
             {<<"p1", LegacyRecord("p3", <<"a", "B">>, <<"b">>, "system")>>}),
     Payload(Undef, {<<"p1", LegacyRecord("p1", <<"a">>, <<"a">>, "user")>>})}

ImportOptionChoices ==
    {EmptyObj,
     Obj([overwriteExisting |-> Bool(TRUE)]),
     Obj([overwriteExisting |-> Bool(TRUE), mergeMetadata |-> Bool(FALSE),
          createBackup |-> Bool(FALSE)])}

FilterInputs ==
    {EmptyObj, Obj([role |-> Str(<<"system">>)]), Obj([search |-> Str(<<"a", "b">>)])}

PresetPrompt(content, role) ==
    Obj([identifier |-> Str(<<"main">>), content |-> Str(content), role |-> Str(<<role>>)])

\* what getCurrentPreset() may return: nothing, a preset with an empty, a
\* blank and a user prompt, and a preset with two user prompts around one
\* with a role that is not a chat role
PresetInputs ==
    {Null,
     Obj([name |-> Str(<<"Default">>),
          prompts |-> Arr(<<PresetPrompt(<<>>, "user"), PresetPrompt(<<" ">>, "user"),
                            PresetPrompt(<<"a">>, "user")>>)]),
     Obj([name |-> Str(<<"Default">>),
          prompts |-> Arr(<<PresetPrompt(<<"a">>, "user"), PresetPrompt(<<"a", "b">>, "tool"),
                            PresetPrompt(<<"b">>, "user")>>)])}

PromptNameInputs == {Null, Str(<<" ">>)}

KeyInputs == {<<"p1">>, <<"p4">>}

Init ==
    /\ store \in {StoreOf(es) : es \in {x \in SUBSET PersistedPool :
                                            Cardinality(x) <= MaxInitialRecords}}
    /\ before = store
    /\ last = NoOp
    /\ exported = Null
    /\ now = StartTime
    /\ idCounter = 0
    /\ input = Null
    /\ waiting = [variant |-> "none"]
    /\ preset = Null
    /\ tasks = <<>>
    /\ filterCache = [enabled |-> FALSE]
    /\ debounced = [kind |-> "none"]

\* an operation has run: r is what it left and returned
Ran(op, args, r) ==
    /\ now < StartTime + MaxOps
    /\ now' = now + 1
    /\ r.idCounter <= MaxGenerated
    /\ store' = r.store
    /\ idCounter' = r.idCounter
    /\ before' = store
    /\ last' = [op |-> op, args |-> args, result |-> r.result]
    /\ UNCHANGED <<waiting, tasks, filterCache, debounced>>

SavePrompt(promptData) ==
    /\ Ran("savePrompt", [promptData |-> promptData],
           savePrompt(store, promptData, now, idCounter))
    /\ UNCHANGED <<exported, input, preset>>

LoadPrompt(promptId) ==
    /\ Ran("loadPrompt", [promptId |-> promptId], loadPrompt(store, promptId, now, idCounter))
    /\ UNCHANGED <<exported, input, preset>>

GetPrompts(filters) ==
    /\ Ran("getPrompts", [filters |-> filters], getPrompts(store, filters, now, idCounter))
    /\ UNCHANGED <<exported, input, preset>>

DeletePrompt(promptId) ==
    /\ Ran("deletePrompt", [promptId |-> promptId], deletePrompt(store, promptId, idCounter))
    /\ UNCHANGED <<exported, input, preset>>

UpdatePromptMetadata(promptId, metadata) ==
    /\ Ran("updatePromptMetadata", [promptId |-> promptId, metadata |-> metadata],
           updatePromptMetadata(store, promptId, metadata, now, idCounter))
    /\ UNCHANGED <<exported, input, preset>>

\* the payload is kept as it is written to the export file, together with
\* the store the export left
ExportPrompts ==
    \E r \in {exportPrompts(store, now, idCounter)} :
        /\ Ran("exportPrompts", <<>>, r)
        /\ exported' = [data |-> r.result.data, store |-> r.store]
        /\ UNCHANGED <<input, preset>>

ImportPrompts(importData, options, order) ==
    /\ Ran("importPrompts", [importData |-> importData, options |-> options],
           importPrompts(store, importData, options, order, now, idCounter))
    /\ UNCHANGED <<exported, input, preset>>

SaveCurrentPrompt(currentPreset, promptName) ==
    /\ Ran("saveCurrentPrompt", [currentPreset |-> currentPreset, promptName |-> promptName],
           saveCurrentPrompt(store, currentPreset, promptName, now, idCounter))
    /\ UNCHANGED <<exported, input, preset>>

SaveCurrentPrompts(currentPreset) ==
    /\ Ran("saveCurrentPrompts", [currentPreset |-> currentPreset],
           saveCurrentPrompts(store, currentPreset, now, idCounter))
    /\ UNCHANGED <<exported, input, preset>>

ToggleFavorite(promptId) ==
    /\ Ran("toggleFavorite", [promptId |-> promptId],
           toggleFavorite(store, promptId, now, idCounter))
    /\ UNCHANGED <<exported, input, preset>>

ExtensionToggleFavorite(promptId) ==
    /\ Ran("Extension.toggleFavorite", [promptId |-> promptId],
           Extension_toggleFavorite(store, promptId, idCounter))
    /\ UNCHANGED <<exported, input, preset>>

HostPrompt(identifier, name, content) ==
    Obj([identifier |-> Str(<<identifier>>), name |-> Str(name), content |-> Str(content)])

\* the presets the host may hold when applyPrompt is called: none, one
\* without prompts, one with two prompts, one with a prompt without a name
HostPresets ==
    {Null,
     Obj([name |-> Str(<<"Default">>), prompts |-> Arr(<<>>)]),
     Obj([name |-> Str(<<"Default">>),
          prompts |-> Arr(<<HostPrompt("main", <<"a">>, <<"a">>),
                            HostPrompt("nsfw", <<"b">>, <<>>)>>)]),
     Obj([name |-> Str(<<"Default">>),
          prompts |-> Arr(<<PresetPrompt(<<"a">>, "user")>>)])}

\* applyPrompt(promptId) while the host's current preset is currentPreset
ApplyPrompt(promptId, currentPreset) ==
    \E r \in {applyPrompt(store, currentPreset, promptId, now, idCounter)} :
        /\ Ran("applyPrompt", [promptId |-> promptId, currentPreset |-> currentPreset], r)
        /\ preset' = r.preset
        /\ UNCHANGED <<exported, input>>

\* the user confirms the deletion on the card of promptId
ConfirmDelete(promptId) ==
    /\ Ran("handleDeletePrompt", [promptId |-> promptId],
           handleDeletePrompt(store, promptId, idCounter))
    /\ UNCHANGED <<exported, input, preset>>

ImportInputs == CraftedPayloads \cup (IF exported = Null THEN {} ELSE {exported.data})

Next ==
    \/ \E promptData \in SaveInputs : SavePrompt(promptData)
    \/ \E promptId \in KeyInputs : LoadPrompt(promptId)
    \/ \E filters \in FilterInputs : GetPrompts(filters)
    \/ \E promptId \in KeyInputs : DeletePrompt(promptId)
    \/ \E promptId \in KeyInputs, metadata \in MetadataInputs(now) :
            UpdatePromptMetadata(promptId, metadata)
    \/ ExportPrompts
    \/ \E currentPreset \in PresetInputs, promptName \in PromptNameInputs :
            SaveCurrentPrompt(currentPreset, promptName)
    \/ \E currentPreset \in PresetInputs : SaveCurrentPrompts(currentPreset)
    \/ \E promptId \in KeyInputs : ToggleFavorite(promptId)
    \/ \E promptId \in KeyInputs : ExtensionToggleFavorite(promptId)
    \/ \E promptId \in KeyInputs : ConfirmDelete(promptId)
    \/ \E promptId \in KeyInputs, currentPreset \in HostPresets :
            ApplyPrompt(promptId, currentPreset)
    \/ \E importData \in ImportInputs, options \in ImportOptionChoices :
            \E order \in Orderings(DOMAIN Props(Get(importData, "prompts"))) :
                ImportPrompts(importData, options, order)

Spec == Init /\ [][Next]_vars

-----------------------------------------------------------------------------
(* Claims about the store *)

ImportMetadataKeys == {"imported_at", "import_source"}

\* q has every field and every metadata field of r with r's value, import
\* metadata aside
KeepsRecord(r, q) ==
    /\ \A k \in RecordFields : HasKey(r, k) => Get(q, k) = Get(r, k)
    /\ \A k \in DOMAIN Props(Get(r, "metadata")) \ ImportMetadataKeys :
          Get(Get(q, "metadata"), k) = Get(Get(r, "metadata"), k)

\* the last operation imported, with overwrite enabled, the payload that
\* exportPrompts had just returned
RoundTripDone ==
    /\ last.op = "importPrompts"
    /\ exported # Null
    /\ last.args.importData = exported.data
    /\ last.args.options = Obj([overwriteExisting |-> Bool(TRUE)])
    /\ before = exported.store

\* C1: importing with overwriteExisting the payload exportPrompts returned
\* leaves every stored record with the id, name, content, role, flags,
\* injection fields and metadata values it had; only metadata.imported_at
\* and metadata.import_source are added.
C1_ExportImportRoundTrip ==
    RoundTripDone =>
        \A k \in DOMAIN before : k \in DOMAIN store /\ KeepsRecord(before[k], store[k])

\* C3: each key of the stored prompts map holds a record whose id equals the
\* key, in every state reached through savePrompt, importPrompts, getPrompts,
\* loadPrompt (with their repairs), updatePromptMetadata and deletePrompt;
\* stated of the entries that pass validation, damaged entries being what
\* the repairs are for.
C3_StoredIdEqualsKey ==
    \A k \in DOMAIN store : IsValid(store[k]) => Get(store[k], "id") = Str(k)

\* C4: after getPrompts returns, every record in its result and every record
\* left in the store passes validatePromptData, and each entry that was
\* invalid before the call has been replaced by a repaired record or removed.
C4_RepairOrDropOnRead ==
    last.op = "getPrompts" =>
        /\ \A k \in DOMAIN last.result : IsValid(last.result[k])
        /\ \A k \in DOMAIN store : IsValid(store[k])
        /\ \A k \in DOMAIN before :
              ~IsValid(before[k]) =>
                  \/ k \notin DOMAIN store
                  \/ (IsValid(store[k]) /\ store[k] # before[k])

\* getPrompts found two invalid entries, repaired one and removed the other
C4_Witness ==
    /\ last.op = "getPrompts"
    /\ \E k \in DOMAIN before : ~IsValid(before[k]) /\ k \notin DOMAIN store
    /\ \E k \in DOMAIN before : ~IsValid(before[k]) /\ k \in DOMAIN store

IsPresetSave == last.op \in {"saveCurrentPrompt", "saveCurrentPrompts"}

\* the prompts of the preset the last operation saved
PresetList ==
    IF IsPresetSave /\ Truthy(last.args.currentPreset)
    THEN Get(last.args.currentPreset, "prompts").a ELSE <<>>

\* the preset prompts with non-empty content and role 'user', by position
UserPrompts ==
    {i \in 1..Len(PresetList) :
        ~BlankContent(PresetList[i]) /\ Get(PresetList[i], "role") = Str(<<"user">>)}

NewKeys == DOMAIN store \ DOMAIN before

\* the new records that carry the content of preset prompt i, unused and
\* not a favorite
StoredFor(i) ==
    {k \in NewKeys :
        /\ Get(store[k], "content") = Get(PresetList[i], "content")
        /\ Get(Get(store[k], "metadata"), "usage_count") = Num(0)
        /\ Get(Get(store[k], "metadata"), "favorite") = Bool(FALSE)}

\* every new record carries the content of a preset prompt that is not blank
NothingFromBlank ==
    \A k \in NewKeys :
        \E i \in 1..Len(PresetList) :
            ~BlankContent(PresetList[i])
                /\ Get(store[k], "content") = Get(PresetList[i], "content")

\* C12: when the current preset is saved, a preset prompt with empty or
\* whitespace content adds nothing to the store, each preset prompt with
\* non-empty content and role 'user' becomes exactly one new stored record
\* with usage_count 0 and favorite false, and no record already in the store
\* changes.
C12_SaveFromPreset ==
    IsPresetSave =>
        /\ NothingFromBlank
        /\ \A i \in UserPrompts : Cardinality(StoredFor(i)) = 1
        /\ \A k \in DOMAIN before : k \in DOMAIN store /\ store[k] = before[k]

\* how many of the user prompts saveCurrentPrompt can store: none when the
\* given name is blank, else as many as the cap leaves room for beside the
\* old entries that are still there
RoomFor ==
    IF last.op = "saveCurrentPrompts" THEN Len(PresetList)
    ELSE IF BlankText(Or(last.args.promptName, Str(<<"Prompt">>))) THEN 0
    ELSE MaxPromptsSetting - Cardinality(DOMAIN store \cap DOMAIN before)

\* C12 as the code has it: blank prompts add nothing; a user prompt becomes
\* exactly one new record (usage_count 0, favorite false) when savePrompt
\* accepts it, that is when its name is not blank and the store is below
\* max_prompts at that moment, and none otherwise; entries already in the
\* store that pass validation are unchanged, the others being repaired or
\* removed by the read inside savePrompt.
C12_SaveFromPresetWhenAccepted ==
    IsPresetSave =>
        /\ NothingFromBlank
        /\ \A i \in UserPrompts :
              Cardinality(StoredFor(i)) =
                  IF Cardinality({j \in UserPrompts : j <= i}) <= RoomFor THEN 1 ELSE 0
        /\ \A k \in DOMAIN before :
              (IsValid(before[k]) \/ last.op = "saveCurrentPrompts")
                  => (k \in DOMAIN store /\ store[k] = before[k])

\* saveCurrentPrompt skipped a blank prompt and stored a user prompt
C12_Witness ==
    /\ last.op = "saveCurrentPrompt"
    /\ last.result.success
    /\ \E i \in 1..Len(PresetList) : BlankContent(PresetList[i])
    /\ \E i \in UserPrompts : Cardinality(StoredFor(i)) = 1

IsImport == last.op = "importPrompts"

\* importPrompts went through its loop and returned its summary
ImportAccepted == IsImport /\ "details" \in DOMAIN last.result

PayloadKeys == DOMAIN Props(Get(last.args.importData, "prompts"))

DetailsWith(status) ==
    {i \in 1..Len(last.result.details) : last.result.details[i].status = status}

\* C13: for every payload importPrompts accepts, the result holds exactly one
\* details entry per payload record, with status imported, skipped or error,
\* imported + skipped + errors (totalProcessed) is the number of payload
\* records and each count is the number of details entries of that status.
C13_ImportAccounting ==
    ImportAccepted =>
        /\ \A k \in PayloadKeys :
              Cardinality({i \in 1..Len(last.result.details) :
                              last.result.details[i].id = k}) = 1
        /\ Len(last.result.details) = Cardinality(PayloadKeys)
        /\ last.result.totalProcessed = Cardinality(PayloadKeys)
        /\ last.result.totalProcessed
              = last.result.imported + last.result.skipped + last.result.errors
        /\ last.result.imported = Cardinality(DetailsWith("imported"))
        /\ last.result.skipped = Cardinality(DetailsWith("skipped"))
        /\ last.result.errors = Cardinality(DetailsWith("error"))

CappedOps == {"savePrompt", "importPrompts", "saveCurrentPrompt"}

\* the last operation was a savePrompt of a record that passes validation,
\* called when the store held max_prompts entries
SaveAtCap ==
    /\ last.op = "savePrompt"
    /\ Cardinality(DOMAIN before) = MaxPromptsSetting
    /\ IsValid(createPromptData(last.args.promptData, StartTime, Str(<<"fresh">>)))

SavesNewId ==
    \/ ~Truthy(Get(last.args.promptData, "id"))
    \/ KeyOf(Get(last.args.promptData, "id")) \notin DOMAIN before

RefusedAtCap ==
    /\ ~last.result.success
    /\ last.result.error = "Storage limit reached"
    /\ store = before

\* C14: savePrompt, importPrompts and saveCurrentPrompt never take the number
\* of stored records above max_prompts; a savePrompt for a new id when the
\* store already holds max_prompts records returns success = false with a
\* storage-limit error and leaves the store unchanged, while saving a record
\* whose id already exists still succeeds.
C14_StorageCap ==
    /\ (last.op \in CappedOps /\ Cardinality(DOMAIN before) <= MaxPromptsSetting)
          => Cardinality(DOMAIN store) <= MaxPromptsSetting
    /\ (SaveAtCap /\ SavesNewId) => RefusedAtCap
    /\ (SaveAtCap /\ ~SavesNewId) => last.result.success

\* C14 as the code has it: the refusal is for a store that holds max_prompts
\* records that pass validation; savePrompt first reads the store, which
\* repairs or removes the entries that do not, and counts what is left.
C14_StorageCapOfValidRecords ==
    /\ (last.op \in CappedOps /\ Cardinality(DOMAIN before) <= MaxPromptsSetting)
          => Cardinality(DOMAIN store) <= MaxPromptsSetting
    /\ (SaveAtCap /\ SavesNewId /\ \A k \in DOMAIN before : IsValid(before[k]))
          => RefusedAtCap
    /\ (SaveAtCap /\ SavesNewId)
          => \/ ~last.result.success /\ last.result.error = "Storage limit reached"
             \/ \E k \in DOMAIN before : k \notin DOMAIN store
    /\ (SaveAtCap /\ ~SavesNewId) => last.result.success

\* a savePrompt for a new id was refused by a full store of valid records
C14_Witness ==
    /\ SaveAtCap
    /\ SavesNewId
    /\ \A k \in DOMAIN before : IsValid(before[k])
    /\ RefusedAtCap

UniformOps ==
    {"savePrompt", "deletePrompt", "updatePromptMetadata", "importPrompts",
     "exportPrompts", "saveCurrentPrompt"}

\* C15: every failure of savePrompt, deletePrompt, updatePromptMetadata,
\* importPrompts, exportPrompts and saveCurrentPrompt is returned as a result
\* with success = false and string error and message fields.
C15_UniformErrorResults ==
    (last.op \in UniformOps /\ ~last.result.success)
        => /\ {"error", "message"} \subseteq DOMAIN last.result
           /\ last.result.error \in STRING
           /\ last.result.message \in STRING

IsDelete == last.op = "deletePrompt"

\* C16: deletePrompt(id) for an id present in the store removes exactly that
\* record and leaves every other record unchanged; for an id not in the
\* store it returns success = false with error 'Prompt not found' and leaves
\* the store unchanged.
C16_ExplicitDelete ==
    IsDelete =>
        IF last.args.promptId \in DOMAIN before
        THEN /\ last.result.success
             /\ DOMAIN store = DOMAIN before \ {last.args.promptId}
             /\ \A k \in DOMAIN store : store[k] = before[k]
        ELSE /\ ~last.result.success
             /\ last.result.error = "Prompt not found"
             /\ store = before

\* a stored record was deleted and another one stayed
C16_Witness ==
    /\ IsDelete
    /\ last.args.promptId \in DOMAIN before
    /\ last.args.promptId \notin DOMAIN store
    /\ DOMAIN store # {}

IsMetadataEdit == last.op = "updatePromptMetadata"

\* the edit was refused by the validation of the merged record
EditRejected ==
    /\ IsMetadataEdit
    /\ ~last.result.success
    /\ last.result.error = "Validation failed"

\* C18: when updatePromptMetadata(id, m) returns success = false because the
\* merged record fails validation, the stored record for id, including its
\* metadata, is exactly what it was before the call.
C18_RejectedEditKeepsRecord ==
    EditRejected =>
        /\ last.args.promptId \in DOMAIN store
        /\ store[last.args.promptId] = before[last.args.promptId]

WithoutOverwrite ==
    /\ IsImport
    /\ ~Truthy(Get(last.args.options, "overwriteExisting"))

\* C19: after importPrompts(payload, {overwriteExisting: false}) every record
\* that was in the store before the call is unchanged, whatever keys and
\* record ids the payload contains.
C19_ImportWithoutOverwrite ==
    WithoutOverwrite =>
        \A k \in DOMAIN before :
            IsValid(before[k]) => (k \in DOMAIN store /\ store[k] = before[k])

AllValidBefore == \A k \in DOMAIN before : IsValid(before[k])

\* the keys under which the last operation left a new or different record
Written == {k \in DOMAIN store : k \notin DOMAIN before \/ store[k] # before[k]}

MaxTimeout == 2
MaxWaitTime == 4

\* poll(): one run of the polling function when Date.now() is time
poll(w, time) ==
    IF w.present
    THEN [w EXCEPT !.pending = FALSE, !.delivered = @ + 1, !.deliveredAt = time]
    ELSE IF time - w.startTime < w.timeout
    THEN [w EXCEPT !.pending = TRUE]
    ELSE [w EXCEPT !.pending = FALSE, !.warned = TRUE]

\* waitForElement(selector, callback, timeout): reads the clock, polls once
waitForElement(w, time) == poll([w EXCEPT !.called = TRUE, !.startTime = time], time)

\* resolve(element) and reject(error) settle the promise once
Resolve(w, time) ==
    IF w.promise = "pending"
    THEN [w EXCEPT !.promise = "resolved", !.delivered = @ + 1, !.deliveredAt = time]
    ELSE w

Reject(w) == IF w.promise = "pending" THEN [w EXCEPT !.promise = "rejected"] ELSE w

\* waitForElement(selector, timeout): the executor of the returned promise
waitForElementPromise(w, time) ==
    IF w.present
    THEN Resolve([w EXCEPT !.called = TRUE, !.startTime = time, !.promise = "pending"], time)
    ELSE [w EXCEPT !.called = TRUE, !.startTime = time, !.promise = "pending",
                   !.observing = TRUE, !.armed = TRUE]

\* the MutationObserver callback
ObserverCallback(w, time) ==
    IF w.present
    THEN Resolve([w EXCEPT !.observing = FALSE, !.queued = FALSE], time)
    ELSE [w EXCEPT !.queued = FALSE]

\* the setTimeout callback
TimeoutFallback(w) == Reject([w EXCEPT !.observing = FALSE, !.queued = FALSE, !.armed = FALSE])

InitWait ==
    /\ store = <<>>
    /\ before = <<>>
    /\ exported = Null
    /\ idCounter = 0
    /\ input = Null
    /\ last = NoOp
    /\ now = StartTime
    /\ preset = Null
    /\ tasks = <<>>
    /\ filterCache = [enabled |-> FALSE]
    /\ debounced = [kind |-> "none"]
    /\ \E variant \in {"callback", "promise"}, timeout \in 1..MaxTimeout, present \in BOOLEAN :
          waiting = [variant |-> variant, timeout |-> timeout, called |-> FALSE,
                     startTime |-> StartTime, present |-> present,
                     appearedAt |-> IF present THEN StartTime ELSE -1,
                     pending |-> FALSE, observing |-> FALSE, queued |-> FALSE,
                     armed |-> FALSE, promise |-> "none",
                     delivered |-> 0, deliveredAt |-> -1, warned |-> FALSE]

WaitFrame ==
    UNCHANGED <<store, before, last, exported, idCounter, input, preset, tasks, filterCache, debounced>>

\* time passes
Tick ==
    /\ now < StartTime + MaxWaitTime
    /\ now' = now + 1
    /\ UNCHANGED waiting
    /\ WaitFrame

CallWaitForElement ==
    /\ ~waiting.called
    /\ now <= StartTime + MaxWaitTime - MaxTimeout
    /\ waiting' = IF waiting.variant = "callback"
                  THEN waitForElement(waiting, now)
                  ELSE waitForElementPromise(waiting, now)
    /\ UNCHANGED now
    /\ WaitFrame

\* the page inserts the awaited element
ElementAppears ==
    /\ ~waiting.present
    /\ waiting' = [waiting EXCEPT !.present = TRUE, !.appearedAt = now,
                                  !.queued = @ \/ waiting.observing]
    /\ UNCHANGED now
    /\ WaitFrame

\* the page changes some other node under document.body
OtherMutation ==
    /\ waiting.observing
    /\ ~waiting.queued
    /\ waiting' = [waiting EXCEPT !.queued = TRUE]
    /\ UNCHANGED now
    /\ WaitFrame

\* the browser runs the callback given to requestAnimationFrame
AnimationFrame ==
    /\ waiting.pending
    /\ waiting' = poll(waiting, now)
    /\ UNCHANGED now
    /\ WaitFrame

\* the browser delivers the queued mutation records (a microtask, so it
\* runs before any timer task)
MutationsDelivered ==
    /\ waiting.observing
    /\ waiting.queued
    /\ waiting' = ObserverCallback(waiting, now)
    /\ UNCHANGED now
    /\ WaitFrame

\* the timer set by setTimeout(..., timeout) fires, not earlier than asked
TimerFires ==
    /\ waiting.armed
    /\ ~waiting.queued
    /\ now - waiting.startTime >= waiting.timeout
    /\ waiting' = TimeoutFallback(waiting)
    /\ UNCHANGED now
    /\ WaitFrame

NextWait ==
    \/ Tick
    \/ CallWaitForElement
    \/ ElementAppears
    \/ OtherMutation
    \/ AnimationFrame
    \/ MutationsDelivered
    \/ TimerFires

\* animation frames, microtasks and timers are run by the browser's event
\* loop, and a page that keeps changing other nodes does not starve the
\* timer task; the page is free to insert the element or not
SpecWait ==
    /\ InitWait
    /\ [][NextWait]_vars
    /\ WF_vars(Tick)
    /\ WF_vars(CallWaitForElement)
    /\ WF_vars(AnimationFrame)
    /\ WF_vars(MutationsDelivered)
    /\ SF_vars(TimerFires)

GaveUp == waiting.warned \/ waiting.promise = "rejected"

\* C17: waitForElement delivers the element at most once and only if the
\* element appears before the timeout; once waiting has ended by the
\* timeout (warning, or rejected promise) the element is never delivered.
C17_BoundedWait ==
    /\ waiting.delivered <= 1
    /\ waiting.delivered > 0
          => /\ waiting.present
             /\ waiting.appearedAt - waiting.startTime <= waiting.timeout
    /\ GaveUp => waiting.delivered = 0

\* the parts of C17 the code keeps: at most one delivery, none after giving up
WaitDeliversOnce ==
    /\ waiting.delivered <= 1
    /\ waiting.delivered > 0 => waiting.present
    /\ GaveUp => waiting.delivered = 0

\* a wait that was started ends, unless the element appears
WaitEnds == waiting.called ~> (waiting.present \/ GaveUp)

-----------------------------------------------------------------------------
(* Further claims about repair *)

IsRepairCall == last.op = "repairPromptData"

\* C21: for every record whose content is a non-blank string,
\* repairPromptData returns a valid record.
C21_RepairFailsOnlyForContent ==
    (IsRepairCall /\ ~BlankText(Get(input.promptData, "content")))
        => /\ last.result # Null
           /\ IsValid(last.result)

-----------------------------------------------------------------------------
(* Further claims about reading the store *)

IsGetPrompts == last.op = "getPrompts"

\* what the repair pass of the last getPrompts() did, from the store it found
LastRepairPass == RepairAll(before, now - 1, 0)

\* C26: whenever getPrompts changes the stored prompts map, by replacing a
\* record with its repaired version or by removing an unrepairable record,
\* it calls saveSettingsDebounced in the same call.
C26_RepairsArePersisted ==
    (IsGetPrompts /\ store # before) => LastRepairPass.saved

\* the tags of a record; a record without metadata.tags has none
TagsOf(prompt) ==
    IF NoMetadata(prompt) \/ TagList(prompt).t # "array" THEN <<>> ELSE TagList(prompt).a

\* the record meets the search and role criteria of the query
MeetsQuery(prompt, filters) ==
    /\ HasSearch(filters) =>
          \/ TextMatches(prompt, SearchTerm(filters))
          \/ \E i \in 1..Len(TagsOf(prompt)) :
                Includes(ToLowerCase(TagsOf(prompt)[i].s), SearchTerm(filters))
    /\ (Truthy(Get(filters, "role")) /\ Get(filters, "role") # Str(<<"all">>))
          => Get(prompt, "role") = Get(filters, "role")

\* C27: for every store whose records all pass validatePromptData (records
\* with no metadata.tags included) and every filter specification,
\* getPrompts(filters) returns exactly the records matching the filters.
C27_ValidRecordsCanBeQueried ==
    (IsGetPrompts /\ AllValidBefore)
        => last.result = [k \in {x \in DOMAIN before :
                                    MeetsQuery(before[x], last.args.filters)}
                            |-> before[k]]

-----------------------------------------------------------------------------
(* Claims about the favorite flag *)

\* the last operation was a toggle of a stored record that reported success
\* (the extension's toggle reports nothing and acts on every stored record
\* that has metadata)
ToggledOk ==
    \/ last.op = "toggleFavorite" /\ last.result.success
    \/ /\ last.op = "Extension.toggleFavorite"
       /\ last.args.promptId \in DOMAIN before
       /\ ~NoMetadata(before[last.args.promptId])

FavoriteOf(record) == Get(Get(record, "metadata"), "favorite")

\* record with its favorite flag negated and nothing else changed
Negated(record) ==
    With(record, "metadata",
         With(Get(record, "metadata"), "favorite", Bool(~Truthy(FavoriteOf(record)))))

\* the store a second toggle of the same id leaves
ToggledAgain ==
    IF last.op = "toggleFavorite"
    THEN toggleFavorite(store, last.args.promptId, now, idCounter).store
    ELSE Extension_toggleFavorite(store, last.args.promptId, idCounter).store

\* C22: a successful toggleFavorite(id) negates metadata.favorite of that
\* record and changes nothing else in that record or in any other record;
\* two successive successful toggles of the same id restore the record.
C22_FavoriteToggle ==
    ToggledOk =>
        /\ DOMAIN store = DOMAIN before
        /\ store[last.args.promptId] = Negated(before[last.args.promptId])
        /\ \A k \in DOMAIN store \ {last.args.promptId} : store[k] = before[k]
        /\ ToggledAgain[last.args.promptId] = before[last.args.promptId]

\* C22 for a record that passes validation and carries a boolean favorite
\* flag; a record that does not validate is first repaired by loadPrompt.
C22_FavoriteToggleOfValidRecord ==
    (ToggledOk /\ IsValid(before[last.args.promptId])
               /\ TypeOf(FavoriteOf(before[last.args.promptId])) = "boolean") =>
        /\ DOMAIN store = DOMAIN before
        /\ store[last.args.promptId] = Negated(before[last.args.promptId])
        /\ \A k \in DOMAIN store \ {last.args.promptId} : store[k] = before[k]
        /\ ToggledAgain[last.args.promptId] = before[last.args.promptId]

\* the manager's toggle has changed the flag of a valid record in a store
\* that holds another record
C22_Witness ==
    /\ last.op = "toggleFavorite"
    /\ last.result.success
    /\ IsValid(before[last.args.promptId])
    /\ FavoriteOf(store[last.args.promptId]) # FavoriteOf(before[last.args.promptId])
    /\ Cardinality(DOMAIN store) > 1

-----------------------------------------------------------------------------
(* Claims about the library UI *)

\* C30: when the user confirms deletion on a prompt card, the handler the
\* card invokes removes that record from the store, so the record is no
\* longer in the store afterwards.
C30_DeleteFromLibraryUI ==
    (last.op = "handleDeletePrompt" /\ last.args.promptId \in DOMAIN before)
        => last.args.promptId \notin DOMAIN store

(***************************************************************************)
(* Claims about applying a stored prompt to the current preset             *)
(***************************************************************************)

IsApply == last.op = "applyPrompt"

AppliedId == last.args.promptId

HostBefore == last.args.currentPreset

PromptsOf(p) == IF Get(p, "prompts").t = "array" THEN Get(p, "prompts").a ELSE <<>>

UsageOf(promptData) ==
    IF Truthy(Get(Get(promptData, "metadata"), "usage_count"))
    THEN Get(Get(promptData, "metadata"), "usage_count").n
    ELSE 0

\* the preset holds the host's entries, in order, and one more at the end:
\* a fresh identifier with the name, content and role of the stored record
AppendedOne ==
    /\ Len(PromptsOf(preset)) = Len(PromptsOf(HostBefore)) + 1
    /\ \A i \in 1..Len(PromptsOf(HostBefore)) :
            \A f \in {"identifier", "name", "content"} :
                Get(PromptsOf(preset)[i], f) = Get(PromptsOf(HostBefore)[i], f)
    /\ \A i \in 1..Len(PromptsOf(HostBefore)) :
            Get(PromptsOf(preset)[Len(PromptsOf(preset))], "identifier")
                # Get(PromptsOf(HostBefore)[i], "identifier")
    /\ AppliedId \in DOMAIN before
    /\ \A f \in {"name", "content", "role"} :
            Get(PromptsOf(preset)[Len(PromptsOf(preset))], f) = Get(before[AppliedId], f)

PromptOrderFollows ==
    Get(preset, "prompt_order")
        = Arr([i \in 1..Len(PromptsOf(preset)) |-> Get(PromptsOf(preset)[i], "identifier")])

UsageCounted ==
    /\ AppliedId \in DOMAIN store
    /\ AppliedId \in DOMAIN before
    /\ UsageOf(store[AppliedId]) = UsageOf(before[AppliedId]) + 1
    /\ Get(Get(store[AppliedId], "metadata"), "last_used") = ToISOString(now - 1)

ApplyRefused ==
    /\ IsApply
    /\ ~last.result.success
    /\ last.result.error \in {"Prompt not found", "No current preset available"}

MaxCalls == 2

OverlapSaveInputs ==
    {Obj([id |-> Str(<<"p5">>), name |-> Str(<<"a">>), content |-> Str(<<"b">>)]),
     Obj([id |-> Str(<<"p6">>), name |-> Str(<<"b">>), content |-> Str(<<"a">>)]),
     Obj([id |-> Str(<<"p3">>), name |-> Str(<<"b">>), content |-> Str(<<"a", "b">>)]),
     Obj([id |-> Str(<<"p4">>), name |-> Str(<<"a">>), content |-> Str(<<" ">>)])}

Calls == IF last.op = "overlap" THEN last.result ELSE <<>>

Call(op, key, overlapped) ==
    [op |-> op, key |-> key, overlapped |-> overlapped, done |-> FALSE, success |-> FALSE]

Started(op, key) ==
    [last EXCEPT !.result = Append(@, Call(op, key, tasks # <<>>))]

Finished(i, success) ==
    [last EXCEPT !.result[i].done = TRUE, !.result[i].success = success]

InitOverlap ==
    /\ store \in {StoreOf(es) : es \in {x \in SUBSET PersistedPool :
                                            Cardinality(x) <= MaxInitialRecords}}
    /\ before = store
    /\ preset \in HostPresets
    /\ last = [op |-> "overlap", args |-> [host |-> preset], result |-> <<>>]
    /\ exported = Null
    /\ now = StartTime
    /\ idCounter = 0
    /\ input = Null
    /\ waiting = [variant |-> "none"]
    /\ tasks = <<>>
    /\ filterCache = [enabled |-> FALSE]
    /\ debounced = [kind |-> "none"]

OverlapFrame == UNCHANGED <<before, exported, input, waiting, filterCache, debounced>>

\* applyPrompt(promptId) up to `await this.dataManager.loadPrompt(promptId)`:
\* loadPrompt has no await of its own and runs to its end
StartApply(promptId) ==
    /\ Len(Calls) < MaxCalls
    /\ \E loaded \in {loadPrompt(store, promptId, now, idCounter)} :
        /\ store' = loaded.store
        /\ idCounter' = loaded.idCounter
        /\ tasks' = Append(tasks, [call |-> Len(Calls) + 1, op |-> "applyPrompt",
                                   pc |-> "loaded", promptId |-> promptId,
                                   found |-> Truthy(loaded.result)])
    /\ last' = Started("applyPrompt", promptId)
    /\ now' = now + 1
    /\ UNCHANGED preset
    /\ OverlapFrame

\* applyPrompt from the result of loadPrompt to its second await: the preset
\* is updated, the arguments of updatePromptMetadata are computed from the
\* loaded record, which is the stored object, and updatePromptMetadata runs
\* up to its own `await this.loadPrompt(promptId)`
ResumeApply ==
    /\ tasks # <<>>
    /\ Head(tasks).op = "applyPrompt"
    /\ Head(tasks).pc = "loaded"
    /\ \E t \in {Head(tasks)} :
        IF ~t.found \/ getCurrentPreset(preset) = Null
        THEN /\ tasks' = Tail(tasks)
             /\ last' = Finished(t.call, FALSE)
             /\ UNCHANGED <<store, preset, idCounter>>
        ELSE \E updated \in {updatePresetPrompts(
                                preset,
                                Append(Get(preset, "prompts").a,
                                       NewPresetPrompt(store[t.promptId],
                                                       generatePromptId(idCounter + 1))))} :
                /\ idCounter' = idCounter + 1
                /\ preset' = updated.preset
                /\ UNCHANGED store
                /\ IF ~updated.result.success \/ NoMetadata(store[t.promptId])
                   THEN /\ tasks' = Tail(tasks)
                        /\ last' = Finished(t.call, FALSE)
                   ELSE /\ tasks' = Append(Tail(tasks),
                                [call |-> t.call, op |-> "applyPrompt", pc |-> "counting",
                                 promptId |-> t.promptId,
                                 metadata |-> Obj([last_used |-> ToISOString(now),
                                                   usage_count |-> NextUsageCount(store[t.promptId])])])
                        /\ UNCHANGED last
    /\ UNCHANGED now
    /\ OverlapFrame

\* updatePromptMetadata from the result of its loadPrompt to its return
ResumeUpdateMetadata ==
    /\ tasks # <<>>
    /\ Head(tasks).op = "applyPrompt"
    /\ Head(tasks).pc = "counting"
    /\ \E t \in {Head(tasks)} :
        /\ store' = updatePromptMetadata(store, t.promptId, t.metadata, now, idCounter).store
        /\ tasks' = Append(Tail(tasks), [call |-> t.call, op |-> "applyPrompt",
                                         pc |-> "counted", promptId |-> t.promptId])
    /\ UNCHANGED <<preset, idCounter, last, now>>
    /\ OverlapFrame

\* applyPrompt from the result of updatePromptMetadata, which it does not
\* look at, to its return
ResumeApplyReturn ==
    /\ tasks # <<>>
    /\ Head(tasks).op = "applyPrompt"
    /\ Head(tasks).pc = "counted"
    /\ tasks' = Tail(tasks)
    /\ last' = Finished(Head(tasks).call, TRUE)
    /\ UNCHANGED <<store, preset, idCounter, now>>
    /\ OverlapFrame

\* savePrompt(promptData), for an id that is neither stored nor being
\* saved, up to `await this.getPrompts()`: the record is built and
\* validated, getPrompts runs to its end and returns its validPrompts object
StartSave(promptData) ==
    /\ Len(Calls) < MaxCalls
    /\ KeyOf(Get(promptData, "id")) \notin DOMAIN store
    /\ \A i \in 1..Len(Calls) : Calls[i].key # KeyOf(Get(promptData, "id"))
    /\ \E complete \in {createPromptData(promptData, now, generatePromptId(idCounter + 1))} :
        IF ~IsValid(complete)
        THEN /\ last' = [Started("savePrompt", KeyOf(Get(promptData, "id")))
                            EXCEPT !.result[Len(Calls) + 1].done = TRUE]
             /\ UNCHANGED <<store, idCounter, tasks>>
        ELSE \E current \in {getPrompts(store, EmptyObj, now, idCounter)} :
                /\ store' = current.store
                /\ idCounter' = current.idCounter
                /\ tasks' = Append(tasks, [call |-> Len(Calls) + 1, op |-> "savePrompt",
                                           pc |-> "read", complete |-> complete,
                                           currentPrompts |-> DOMAIN current.result])
                /\ last' = Started("savePrompt", KeyOf(Get(promptData, "id")))
    /\ now' = now + 1
    /\ UNCHANGED preset
    /\ OverlapFrame

\* savePrompt from the result of getPrompts to its return: the limit is
\* tested on the object getPrompts returned, the record is written to the
\* settings
ResumeSave ==
    /\ tasks # <<>>
    /\ Head(tasks).op = "savePrompt"
    /\ \E t \in {Head(tasks)} :
        IF /\ Cardinality(t.currentPrompts) >= MaxPromptsSetting
           /\ KeyOf(Get(t.complete, "id")) \notin t.currentPrompts
        THEN /\ last' = Finished(t.call, FALSE)
             /\ UNCHANGED store
        ELSE /\ store' = (KeyOf(Get(t.complete, "id")) :> t.complete) @@ store
             /\ last' = Finished(t.call, TRUE)
    /\ tasks' = Tail(tasks)
    /\ UNCHANGED <<preset, idCounter, now>>
    /\ OverlapFrame

NextOverlap ==
    \/ \E promptId \in KeyInputs : StartApply(promptId)
    \/ ResumeApply
    \/ ResumeUpdateMetadata
    \/ ResumeApplyReturn
    \/ \E promptData \in OverlapSaveInputs : StartSave(promptData)
    \/ ResumeSave

SpecOverlap == InitOverlap /\ [][NextOverlap]_vars

\* both calls are applyPrompt calls for one record, both have returned
\* success, and the second was started while the first was suspended
TwoAppliesOverlapped ==
    /\ last.op = "overlap"
    /\ Len(Calls) = 2
    /\ \A i \in 1..2 : Calls[i].op = "applyPrompt" /\ Calls[i].done /\ Calls[i].success
    /\ Calls[1].key = Calls[2].key
    /\ Calls[2].overlapped

TwoAppliesInTurn ==
    /\ last.op = "overlap"
    /\ Len(Calls) = 2
    /\ \A i \in 1..2 : Calls[i].op = "applyPrompt" /\ Calls[i].done /\ Calls[i].success
    /\ Calls[1].key = Calls[2].key
    /\ ~Calls[2].overlapped

CountedTwice ==
    /\ UsageOf(store[Calls[1].key]) = UsageOf(before[Calls[1].key]) + 2
    /\ Len(PromptsOf(preset)) = Len(PromptsOf(last.args.host)) + 2

\* C24: when two applyPrompt(id) calls for one record overlap, the final
\* state is that of running them one after the other: usage_count has
\* increased by 2 and the preset has gained 2 entries.
C24_NoLostUsageUpdates == TwoAppliesOverlapped => CountedTwice

\* two calls made one after the other are both counted
AppliesInTurnAreCounted == TwoAppliesInTurn => CountedTwice

\* C25: while savePrompt calls for distinct new ids overlap, the number of
\* stored records never exceeds max_prompts.
C25_StorageCapUnderOverlap ==
    last.op = "overlap" => Cardinality(DOMAIN store) <= MaxPromptsSetting
(***************************************************************************)
(* The filter cache.  In this specification now is Date.now() in           *)
(* milliseconds; a call takes less than that, so the clock advances in     *)
(* steps of its own.                                                       *)
(***************************************************************************)

\* milliseconds that pass in a run
MaxCacheTime == 3

\* evictions counted in a run
MaxEvictions == 3

CacheOptions == {EmptyObj, Obj([maxCacheSize |-> Num(1)]), Obj([maxCacheSize |-> Num(2)])}

FilterKeys == {Str(<<"a">>), Str(<<"b">>), Str(<<"a", "b">>)}

\* PromptDataManager.enablePromptCaching(options): config.maxCacheSize and
\* an empty filters map (entries in insertion order)
enablePromptCaching(options) ==
    [enabled |-> TRUE,
     maxCacheSize |-> IF HasKey(options, "maxCacheSize")
                      THEN Get(options, "maxCacheSize").n
                      ELSE 100,
     filters |-> <<>>,
     evictions |-> 0]

\* the key evictOldestCacheEntry's loop ends with: the first entry whose
\* timestamp is below every timestamp before it and below Date.now()
OldestKey(filters, time) ==
    IF \A i \in 1..Len(filters) : filters[i].timestamp >= time
    THEN Null
    ELSE filters[CHOOSE i \in 1..Len(filters) :
                    /\ filters[i].timestamp < time
                    /\ \A j \in 1..Len(filters) :
                          \/ filters[j].timestamp > filters[i].timestamp
                          \/ filters[j].timestamp = filters[i].timestamp /\ j >= i].key

\* the map without the entry of a key
MapDelete(filters, key) == SelectSeq(filters, LAMBDA e : e.key # key)

\* PromptDataManager.evictOldestCacheEntry('filters')
evictOldestCacheEntry(cache, time) ==
    IF cache.filters = <<>> THEN cache
    ELSE IF Truthy(OldestKey(cache.filters, time))
    THEN [cache EXCEPT !.filters = MapDelete(@, OldestKey(cache.filters, time)),
                       !.evictions = @ + 1]
    ELSE cache

\* Map.set: the value of a key that is present is replaced where it stands
MapSet(filters, key, entry) ==
    IF \E i \in 1..Len(filters) : filters[i].key = key
    THEN [i \in 1..Len(filters) |-> IF filters[i].key = key THEN entry ELSE filters[i]]
    ELSE Append(filters, entry)

\* the cache after the size test of cacheFilterResults
RoomMade(cache, time) ==
    IF Len(cache.filters) >= cache.maxCacheSize
    THEN evictOldestCacheEntry(cache, time)
    ELSE cache

\* PromptDataManager.cacheFilterResults(filterKey, results)
cacheFilterResults(cache, filterKey, time) ==
    IF ~cache.enabled
    THEN [cache |-> cache, result |-> [success |-> FALSE, message |-> "Caching not enabled"]]
    ELSE [cache |-> [RoomMade(cache, time) EXCEPT
                        !.filters = MapSet(@, filterKey,
                                           [key |-> filterKey, timestamp |-> time])],
          result |-> [success |-> TRUE, message |-> "Filter results cached successfully"]]

InitCache ==
    /\ IdleStore
    /\ last = NoOp
    /\ input = Null

CacheFrame == UNCHANGED <<store, before, exported, idCounter, input, waiting, preset, tasks, debounced>>

EnablePromptCaching(options) ==
    /\ filterCache' = enablePromptCaching(options)
    /\ last' = [op |-> "enablePromptCaching", args |-> [options |-> options],
                result |-> [success |-> TRUE]]
    /\ UNCHANGED now
    /\ CacheFrame

CacheFilterResults(filterKey) ==
    /\ filterCache.enabled => filterCache.evictions < MaxEvictions
    /\ \E r \in {cacheFilterResults(filterCache, filterKey, now)} :
        /\ filterCache' = r.cache
        /\ last' = [op |-> "cacheFilterResults",
                    args |-> [filterKey |-> filterKey, cache |-> filterCache, time |-> now],
                    result |-> r.result]
    /\ UNCHANGED now
    /\ CacheFrame

\* a millisecond passes
Millisecond ==
    /\ now < StartTime + MaxCacheTime
    /\ now' = now + 1
    /\ UNCHANGED <<filterCache, last>>
    /\ CacheFrame

NextCache ==
    \/ \E options \in CacheOptions : EnablePromptCaching(options)
    \/ \E filterKey \in FilterKeys : CacheFilterResults(filterKey)
    \/ Millisecond

SpecCache == InitCache /\ [][NextCache]_vars

CachedWhenFull ==
    /\ last.op = "cacheFilterResults"
    /\ last.result.success
    /\ Len(last.args.cache.filters) >= last.args.cache.maxCacheSize

\* C28: once caching is enabled with maxCacheSize = N the filter cache never
\* holds more than N entries, whatever the timestamps of its entries, and an
\* insertion into a full cache first evicts one entry.
C28_FilterCacheBound ==
    /\ filterCache.enabled => Len(filterCache.filters) <= filterCache.maxCacheSize
    /\ CachedWhenFull => filterCache.evictions = last.args.cache.evictions + 1

\* the bound holds for a cache whose entries are all older than the clock
\* reading of the insertion
FilterCacheBoundOverOlderEntries ==
    (/\ CachedWhenFull
     /\ Len(last.args.cache.filters) <= last.args.cache.maxCacheSize
     /\ \A i \in 1..Len(last.args.cache.filters) : last.args.cache.filters[i].timestamp < last.args.time)
        => /\ Len(filterCache.filters) <= filterCache.maxCacheSize
           /\ filterCache.evictions = last.args.cache.evictions + 1
(***************************************************************************)
(* Debounced functions.  now is the clock in milliseconds; a timer set     *)
(* with setTimeout(f, delay) runs f when the event loop gets to it, never  *)
(* before the delay has elapsed and possibly later.                        *)
(***************************************************************************)

\* milliseconds that pass in a run
MaxDebounceTime == 5

\* the longest delay a debounced function is created with
MaxDelay == 2

\* calls counted in one burst
MaxBurstCalls == 3

DebounceKinds == {"debounce", "createDebouncedSearch"}

\* what a caller passes: any arguments to a function made by debounce, a
\* query to the debounced search
DebounceArgs(kind) ==
    IF kind = "debounce" THEN {<<"a">>, <<"b">>, <<"a", "b">>} ELSE {<<"a">>, <<"b">>}

NoBurst == [calls |-> 0, invocations |-> 0, cancelled |-> FALSE]

\* debounce(func, wait) and createDebouncedSearch(searchFunction, delay):
\* the returned function with its timeout variable, no timer set
CreateDebounced(kind, delay) ==
    [kind |-> kind, delay |-> delay, timers |-> <<>>,
     calls |-> 0, lastCall |-> 0, lastArgs |-> <<>>,
     invocations |-> 0, invokedWith |-> <<>>, invokedAt |-> 0,
     ended |-> NoBurst]

\* the call opens a burst: there was none, or the last call is at least
\* the delay back
OpensBurst(d, time) == d.calls = 0 \/ time - d.lastCall >= d.delay

\* the bookkeeping of bursts at a call
CountCall(d, args, time) ==
    IF OpensBurst(d, time)
    THEN [d EXCEPT !.calls = 1, !.lastCall = time, !.lastArgs = args,
                   !.invocations = 0, !.invokedWith = <<>>, !.invokedAt = 0,
                   !.ended = [calls |-> d.calls, invocations |-> d.invocations,
                              cancelled |-> d.timers # <<>>]]
    ELSE [d EXCEPT !.calls = @ + 1, !.lastCall = time, !.lastArgs = args]

\* a debounced function that sets its timer without clearing the last one
executedFunctionKeepsTimer(d, args, time) ==
    [CountCall(d, args, time) EXCEPT
        !.timers = Append(@, [due |-> time + d.delay, args |-> args])]

\* the function debounce returns, and debouncedSearch:
\* clearTimeout(timeout); timeout = setTimeout(later, wait)
executedFunction(d, args, time) ==
    [CountCall(d, args, time) EXCEPT
        !.timers = <<[due |-> time + d.delay, args |-> args]>>]

\* later(), and the arrow function of debouncedSearch: the wrapped function
\* is called with the arguments of the call that set the timer
later(d, i, time) ==
    [d EXCEPT !.timers = SelectSeq(@, LAMBDA t : t # d.timers[i]),
              !.invocations = @ + 1,
              !.invokedWith = d.timers[i].args,
              !.invokedAt = time]

InitDebounce ==
    /\ IdleStore
    /\ last = NoOp
    /\ input = Null

DebounceFrame ==
    UNCHANGED <<store, before, last, exported, idCounter, input, waiting, preset, tasks,
                filterCache>>

Debounce(kind, delay) ==
    /\ debounced.kind = "none"
    /\ debounced' = CreateDebounced(kind, delay)
    /\ UNCHANGED now
    /\ DebounceFrame

DebouncedCall(args) ==
    /\ debounced.kind # "none"
    /\ args \in DebounceArgs(debounced.kind)
    /\ now + debounced.delay <= StartTime + MaxDebounceTime
    /\ OpensBurst(debounced, now) \/ debounced.calls < MaxBurstCalls
    /\ debounced' = executedFunction(debounced, args, now)
    /\ UNCHANGED now
    /\ DebounceFrame

DebounceTimerFires ==
    /\ debounced.kind # "none"
    /\ \E i \in 1..Len(debounced.timers) :
        /\ debounced.timers[i].due <= now
        /\ debounced' = later(debounced, i, now)
    /\ UNCHANGED now
    /\ DebounceFrame

DebounceTick ==
    /\ now < StartTime + MaxDebounceTime
    /\ now' = now + 1
    /\ UNCHANGED debounced
    /\ DebounceFrame

NextDebounce ==
    \/ \E kind \in DebounceKinds, delay \in 1..MaxDelay : Debounce(kind, delay)
    \/ \E args \in DebounceArgs("debounce") : DebouncedCall(args)
    \/ DebounceTimerFires
    \/ DebounceTick

\* the event loop runs a timer that is due, and time passes
SpecDebounce ==
    /\ InitDebounce
    /\ [][NextDebounce]_vars
    /\ WF_vars(DebounceTimerFires)
    /\ WF_vars(DebounceTick)

InBurst == debounced.kind # "none" /\ debounced.calls > 0

\* at most one invocation in the burst so far, with the arguments of its
\* last call and not before the delay has elapsed since that call, and one
\* invocation once no timer is left
BurstInvokedOnce ==
    InBurst =>
        /\ debounced.invocations <= 1
        /\ debounced.invocations = 1 =>
                /\ debounced.invokedWith = debounced.lastArgs
                /\ debounced.invokedAt >= debounced.lastCall + debounced.delay
        /\ debounced.timers = <<>> => debounced.invocations = 1

\* C29: in a burst of calls of a debounced function, each following the
\* previous one by less than the delay, the wrapped function is invoked
\* exactly once, with the arguments of the last call and not before the
\* delay has elapsed since that call.
C29_Debounce ==
    /\ BurstInvokedOnce
    /\ InBurst /\ debounced.ended.calls > 0 => debounced.ended.invocations = 1

\* the same, a burst apart whose timer was due and had not run when the
\* next call cleared it: that burst is not invoked
C29_DebounceUnlessCleared ==
    /\ BurstInvokedOnce
    /\ InBurst /\ debounced.ended.calls > 0 =>
            \/ debounced.ended.invocations = 1 /\ ~debounced.ended.cancelled
            \/ debounced.ended.invocations = 0 /\ debounced.ended.cancelled

C29_Witness ==
    /\ InBurst
    /\ debounced.calls >= 2
    /\ debounced.invocations = 1
    /\ debounced.ended.calls >= 2
    /\ debounced.ended.invocations = 1

\* a timer that is set is run or cleared
DebounceTimerEnds ==
    (InBurst /\ debounced.timers # <<>>) ~> (InBurst /\ debounced.timers = <<>>)
====
